---- MODULE Spec2Model ----
(***************************************************************************)
(* Model of the NECB hybrid table-extraction and repair pipeline of        *)
(* bluesky (src/bluesky/mcp/scrapers/necb).                                *)
(*                                                                         *)
(* Text is modelled as a sequence of one-character strings, so that the    *)
(* string operations of the code (replace, strip, startswith, split, the   *)
(* empty-cell regular expression) are computed, not assumed.               *)
(* Confidence scores are per-mille integers (0.8 is 800).                  *)
(***************************************************************************)
EXTENDS Integers, Sequences, FiniteSets, TLC

VARIABLES
    registry,   \* schemas.SCHEMA_REGISTRY, the module-level dict
    lk,         \* a client of get_schema_for_table and the results it got
    rep,        \* one repair_and_normalize call of LLMTableRepairer
    val,        \* one validate_extraction call of PyMuPDFTableExtractor
    norm,       \* one normalize_structure call of MarkerTableExtractor
    pipe,       \* a document run of the Pipeline Orchestrator
    leg,        \* a document run of NECBPDFParser.parse
    meta,       \* one _extract_table_metadata call of NECBPDFParser
    cln,        \* one _clean_table_structure call of NECBPDFParser
    mx,         \* extractors of MarkerTableExtractor and their cache directory
    fx,         \* one _parse_markdown_table call of PyMuPDFTableExtractor
    mrg,        \* one detect_merged_cells call of MarkerTableExtractor
    spl         \* one call of the Fast Extractor's block splitter

vars == <<registry, lk, rep, val, norm, pipe, leg, meta, cln, mx, fx, mrg, spl>>

(***************************************************************************)
(* Bounds of the model.                                                    *)
(***************************************************************************)
\* how often one spelling of a table number is looked up again
MaxRepeat == 2
\* longest list of rows in a model response
MaxAssemblies == 3
\* longest block text handed to the Validator
MaxTextLen == 3
\* largest row and column estimate of a MarkdownTable
MaxEstimate == 2
\* most rows of a cell grid, and most cells of one of its rows
MaxGridRows == 3
MaxGridCols == 2
\* pages of a document, and most tables an extractor finds on one page
NumPages == 2
MaxPageTables == 2
\* most whole-document passes of one extractor
MaxPasses == 2
\* most lines of a block handed to the Fast Extractor's block parser
MaxBlockLines == 3
\* most lines of a page text handed to the Fast Extractor's block splitter
MaxPageLines == 3

(***************************************************************************)
(* Python string helpers.                                                  *)
(***************************************************************************)
Whitespace == {" ", "\n"}

RECURSIVE LStrip(_)
\* str.lstrip()
LStrip(s) ==
    IF s # <<>> /\ Head(s) \in Whitespace THEN LStrip(Tail(s)) ELSE s

RECURSIVE RStrip(_)
\* str.rstrip()
RStrip(s) ==
    IF s # <<>> /\ s[Len(s)] \in Whitespace
    THEN RStrip(SubSeq(s, 1, Len(s) - 1))
    ELSE s

\* str.strip()
Strip(s) == RStrip(LStrip(s))

\* str.startswith(p)
StartsWith(s, p) == Len(s) >= Len(p) /\ SubSeq(s, 1, Len(p)) = p

RECURSIVE RemoveAll(_, _)
\* str.replace(p, ""): every non-overlapping occurrence, left to right
RemoveAll(s, p) ==
    IF Len(s) < Len(p) THEN s
    ELSE IF SubSeq(s, 1, Len(p)) = p
         THEN RemoveAll(SubSeq(s, Len(p) + 1, Len(s)), p)
         ELSE <<Head(s)>> \o RemoveAll(Tail(s), p)

(***************************************************************************)
(* schemas.py: the registry and its lookup.                                *)
(***************************************************************************)
N_3_2_2_2 == <<"3", ".", "2", ".", "2", ".", "2">>
N_3_2_2_3 == <<"3", ".", "2", ".", "2", ".", "3">>
N_3_2_1_4 == <<"3", ".", "2", ".", "1", ".", "4">>
N_4_2_1_3 == <<"4", ".", "2", ".", "1", ".", "3">>
N_5_2_5_3 == <<"5", ".", "2", ".", "5", ".", "3">>
N_8_4_4_8_A == <<"8", ".", "4", ".", "4", ".", "8", ".", "A">>
N_8_4_4_8_B == <<"8", ".", "4", ".", "4", ".", "8", ".", "B">>

\* SCHEMA_REGISTRY: table number -> schema class
SCHEMA_REGISTRY ==
    { <<N_3_2_2_2, "EnvelopeTable">>,
      <<N_3_2_2_3, "EnvelopeTable">>,
      <<N_3_2_1_4, "FDWRTable">>,
      <<N_4_2_1_3, "LightingTable">>,
      <<N_5_2_5_3, "PipingInsulationTable">>,
      <<N_8_4_4_8_A, "HVACTable">>,
      <<N_8_4_4_8_B, "HVACTable">> }

\* the literals of get_schema_for_table
TablePrefix == <<"T", "a", "b", "l", "e", " ">>
AppendixPrefix == <<"A", "-">>

\* dict.get(key): the value, or None
DictGet(d, key) ==
    IF \E e \in d : e[1] = key
    THEN (CHOOSE e \in d : e[1] = key)[2]
    ELSE "None"

\* a lookup that forgets the appendix prefix
NormalizeTableNumber_KeepsAppendix(table_number) ==
    Strip(RemoveAll(table_number, TablePrefix))

\* table_number.replace("Table ", "").replace("A-", "").strip()
NormalizeTableNumber(table_number) ==
    Strip(RemoveAll(RemoveAll(table_number, TablePrefix), AppendixPrefix))

\* get_schema_for_table, reading the registry reg
get_schema_for_table(reg, table_number) ==
    DictGet(reg, NormalizeTableNumber(table_number))

(***************************************************************************)
(* A client of the registry: it holds one table number n and looks it up   *)
(* as n, "Table " + n and "A-" + n, each up to MaxRepeat times.            *)
(***************************************************************************)
N_99_99_99 == <<"9", "9", ".", "9", "9", ".", "9", "9">>

\* the table numbers a caller may hold
TableNumberInputs ==
    { N_3_2_2_2, N_3_2_2_3, N_3_2_1_4, N_4_2_1_3, N_5_2_5_3,
      N_8_4_4_8_A, N_8_4_4_8_B,
      N_99_99_99,
      <<>>,
      N_3_2_2_2 \o <<".">>,
      <<" ">> \o N_3_2_2_2 \o <<" ">>,
      AppendixPrefix \o N_3_2_1_4,
      TablePrefix \o N_3_2_2_2,
      TablePrefix \o AppendixPrefix \o N_3_2_1_4,
      <<"T">> \o TablePrefix \o <<"a", "b", "l", "e", " ">> \o N_3_2_2_2,
      <<"A">> \o AppendixPrefix \o <<"-">> \o N_3_2_1_4 }

Spellings == {"plain", "table", "appendix"}

\* the string handed to the lookup for a spelling of n
Spelled(sp, n) ==
    CASE sp = "plain" -> n
      [] sp = "table" -> TablePrefix \o n
      [] sp = "appendix" -> AppendixPrefix \o n

LkIdle == [n |-> <<>>, res |-> [sp \in Spellings |-> <<>>]]

\* one call get_schema_for_table(Spelled(sp, n)); SCHEMA_REGISTRY.get does
\* not write the dict
Lookup(sp) ==
    /\ Len(lk.res[sp]) < MaxRepeat
    /\ lk' = [lk EXCEPT !.res[sp] =
                Append(@, get_schema_for_table(registry, Spelled(sp, lk.n)))]
    /\ UNCHANGED <<registry, rep, val, norm, pipe, leg, meta, cln, mx, fx, mrg, spl>>

LookupPlain == Lookup("plain")

LookupTable == Lookup("table")

LookupAppendix == Lookup("appendix")

(***************************************************************************)
(* The language-model service and its responses.  A response text is a     *)
(* sequence of tokens: a code fence, a word, a newline, a blank, or the    *)
(* text of one JSON value.  A JSON value is what json.loads returns for    *)
(* it: t is its Python type, has_error says whether "error" in value       *)
(* holds, n is len(value), rec holds the fields of an object.              *)
(***************************************************************************)
NoRec == [vintage |-> "missing", table_number |-> <<>>,
          list_key |-> "missing", items |-> <<>>]

NoValue == [t |-> "none", has_error |-> FALSE, n |-> 0, rec |-> NoRec]

Fence == [k |-> "fence", v |-> NoValue]
Word == [k |-> "word", v |-> NoValue]
Newline == [k |-> "nl", v |-> NoValue]
Blank == [k |-> "sp", v |-> NoValue]
Json(v) == [k |-> "json", v |-> v]

TokenWhitespace == {Newline, Blank}

RECURSIVE TokLStrip(_)
TokLStrip(s) ==
    IF s # <<>> /\ Head(s) \in TokenWhitespace THEN TokLStrip(Tail(s)) ELSE s

RECURSIVE TokRStrip(_)
TokRStrip(s) ==
    IF s # <<>> /\ s[Len(s)] \in TokenWhitespace
    THEN TokRStrip(SubSeq(s, 1, Len(s) - 1))
    ELSE s

\* str.strip() on a response text
TokStrip(s) == TokRStrip(TokLStrip(s))

\* the rows a response may list: (assembly_type, number of invalid fields)
Row(type, bad) == [type |-> type, bad |-> bad]

RowChoices ==
    { Row("Walls", 0), Row("Roofs", 0), Row("Floors", 0),
      Row("Windows", 0), Row("Beams", 1) }

RECURSIVE SeqsUpTo(_, _)
\* the sequences over S of length at most n
SeqsUpTo(S, n) ==
    IF n = 0 THEN {<<>>}
    ELSE LET shorter == SeqsUpTo(S, n - 1)
         IN  shorter \cup {Append(q, x) : q \in shorter, x \in S}

RowLists == SeqsUpTo(RowChoices, MaxAssemblies)

\* lists at and beyond the longest the envelope schema takes
SixRows ==
    <<Row("Walls", 0), Row("Roofs", 0), Row("Floors", 0),
      Row("Windows", 0), Row("Walls", 0), Row("Roofs", 0)>>

LongRowLists ==
    {SixRows, Append(SixRows, Row("Floors", 0)),
     [i \in 1..(Len(SixRows) + 1) |-> Row("Walls", 0)]}

\* the objects a response may hold
Records ==
    [vintage : {"2020", "1999"},
     table_number : {N_3_2_2_2, TablePrefix \o N_3_2_2_2},
     list_key : {"assemblies", "requirements"},
     items : RowLists \cup LongRowLists]

GoodRecord ==
    [vintage |-> "2020", table_number |-> N_3_2_2_2, list_key |-> "assemblies",
     items |-> <<Row("Walls", 0), Row("Roofs", 0), Row("Floors", 0)>>]

JObject(rec) == [t |-> "object", has_error |-> FALSE, n |-> 3, rec |-> rec]

JsonValues ==
    {JObject(r) : r \in Records}
    \cup { [t |-> "object", has_error |-> TRUE, n |-> 1, rec |-> NoRec],
           [t |-> "object", has_error |-> TRUE, n |-> 4, rec |-> GoodRecord],
           [t |-> "object", has_error |-> FALSE, n |-> 0, rec |-> NoRec],
           [t |-> "null", has_error |-> FALSE, n |-> 0, rec |-> NoRec],
           [t |-> "number", has_error |-> FALSE, n |-> 0, rec |-> NoRec],
           [t |-> "string", has_error |-> TRUE, n |-> 5, rec |-> NoRec],
           [t |-> "list", has_error |-> TRUE, n |-> 1, rec |-> NoRec],
           [t |-> "list", has_error |-> FALSE, n |-> 0, rec |-> NoRec],
           [t |-> "list", has_error |-> FALSE, n |-> 2, rec |-> NoRec] }

\* the ways a model wraps a JSON value v in its response
Wrappings(v) ==
    { <<Json(v)>>,
      <<Blank, Json(v), Newline>>,
      <<Fence, Word, Newline, Json(v), Newline, Fence>>,
      <<Fence, Json(v), Fence>>,
      <<Fence, Word, Newline, Json(v)>>,
      <<Word, Newline, Json(v)>> }

\* what client.generate does when its response holds the JSON value v:
\* it returns one of the wrappings of v
LLMResponses(v) == {[raises |-> FALSE, output |-> o] : o \in Wrappings(v)}

\* what client.generate does otherwise: it raises (connection error,
\* timeout) or returns a text that holds no JSON value
LLMFailures ==
    { [raises |-> TRUE, output |-> <<>>],
      [raises |-> FALSE, output |-> <<>>],
      [raises |-> FALSE, output |-> <<Word>>] }

(***************************************************************************)
(* schemas.py: what constructing a schema class from an object's fields    *)
(* reports.  Pydantic collects every violation, one error each.            *)
(***************************************************************************)
VintagePattern == {"2011", "2015", "2017", "2020"}
AssemblyTypePattern ==
    {"Walls", "Roofs", "Floors", "Windows", "Doors", "Skylights"}
EnvelopeNumberPattern == {N_3_2_2_2, N_3_2_2_3}
HVACNumberPattern == {N_8_4_4_8_A, N_8_4_4_8_B}
EnvelopeMinLength == 3
EnvelopeMaxLength == 6
RequirementsMinLength == 1

\* vintage: str = Field(..., pattern=...)
VintageErrors(rec) ==
    IF rec.vintage = "missing" THEN <<"vintage: Field required">>
    ELSE IF rec.vintage \notin VintagePattern
         THEN <<"vintage: String should match pattern">>
         ELSE <<>>

\* table_number: str = Field(..., pattern=...)
NumberErrors(rec, pattern) ==
    IF rec.table_number = <<>> THEN <<"table_number: Field required">>
    ELSE IF rec.table_number \notin pattern
         THEN <<"table_number: String should match pattern">>
         ELSE <<>>

RECURSIVE Repeat(_, _)
Repeat(e, n) == IF n <= 0 THEN <<>> ELSE <<e>> \o Repeat(e, n - 1)

RECURSIVE AssemblyErrors(_)
\* AssemblyRequirement: the type pattern and the six U-value ranges
AssemblyErrors(items) ==
    IF items = <<>> THEN <<>>
    ELSE (IF Head(items).type \notin AssemblyTypePattern
          THEN <<"assemblies: assembly_type: String should match pattern">>
          ELSE <<>>)
         \o Repeat("assemblies: Input should be in range", Head(items).bad)
         \o AssemblyErrors(Tail(items))

RECURSIVE RowErrors(_)
\* the row models of the other tables: their constrained fields
RowErrors(items) ==
    IF items = <<>> THEN <<>>
    ELSE Repeat("row: Input should be in range", Head(items).bad)
         \o RowErrors(Tail(items))

\* validate_assembly_types that takes any set of types
validate_assembly_types_AnyTypes(items) == <<>>

\* EnvelopeTable.validate_assembly_types
validate_assembly_types(items) ==
    LET types == {items[i].type : i \in 1..Len(items)}
        has_opaque == {"Walls", "Roofs", "Floors"} \subseteq types
        has_fenestration ==
            \E t \in {"Windows", "Doors", "Skylights"} : t \in types
    IN  IF ~(has_opaque \/ has_fenestration)
        THEN <<"assemblies: Value error, Must have at least Walls/Roofs/Floors or Windows/Doors/Skylights">>
        ELSE <<>>

\* assemblies: list[AssemblyRequirement] = Field(..., min_length=3, max_length=6)
\* and its field validator, which runs only on a list that validated
EnvelopeListErrors(rec) ==
    IF rec.list_key # "assemblies" THEN <<"assemblies: Field required">>
    ELSE IF Len(rec.items) < EnvelopeMinLength
         THEN <<"assemblies: List should have at least 3 items">>
    ELSE IF Len(rec.items) > EnvelopeMaxLength
         THEN <<"assemblies: List should have at most 6 items">>
    ELSE IF AssemblyErrors(rec.items) # <<>> THEN AssemblyErrors(rec.items)
    ELSE validate_assembly_types(rec.items)

\* requirements / equipment: list[...] = Field(..., min_length=1)
ListErrors(rec, key) ==
    IF rec.list_key # key THEN <<"list: Field required">>
    ELSE IF Len(rec.items) < RequirementsMinLength
         THEN <<"list: List should have at least 1 item">>
         ELSE RowErrors(rec.items)

\* target_schema(**data) for an object: the errors of the ValidationError,
\* empty when the instance is built
SchemaErrors(schema, rec) ==
    CASE schema = "EnvelopeTable" ->
            VintageErrors(rec) \o NumberErrors(rec, EnvelopeNumberPattern)
            \o EnvelopeListErrors(rec)
      [] schema = "HVACTable" ->
            VintageErrors(rec) \o NumberErrors(rec, HVACNumberPattern)
            \o ListErrors(rec, "equipment")
      [] OTHER ->
            VintageErrors(rec) \o ListErrors(rec, "requirements")

(***************************************************************************)
(* llm_repair.py: LLMTableRepairer.                                        *)
(***************************************************************************)
NoneData == [schema |-> "None", rec |-> NoRec]

\* a Pydantic instance of schema built from rec
Instance(schema, rec) == [schema |-> schema, rec |-> rec]

\* bool(x) of a returned model: None is false, an instance is true
Truthy(d) == d # NoneData

\* text.find(tok) as a 1-based position, 0 when absent
FindFirst(text, tok) ==
    IF \E i \in 1..Len(text) : text[i] = tok
    THEN CHOOSE i \in 1..Len(text) :
            text[i] = tok /\ \A j \in 1..(i - 1) : text[j] # tok
    ELSE 0

\* text.rfind(tok) as a 1-based position, 0 when absent
FindLast(text, tok) ==
    IF \E i \in 1..Len(text) : text[i] = tok
    THEN CHOOSE i \in 1..Len(text) :
            text[i] = tok /\ \A j \in (i + 1)..Len(text) : text[j] # tok
    ELSE 0

\* _extract_json_from_markdown
_extract_json_from_markdown(llm_output) ==
    LET text == TokStrip(llm_output)
    IN  IF text # <<>> /\ Head(text) = Fence
        THEN LET nl == FindFirst(text, Newline)
                 \* start: the first newline, else just past the opening fence
                 start == IF nl = 0 THEN 2 ELSE nl
                 \* end: the last fence, which may be the opening one
                 end == FindLast(text, Fence)
             IN  TokStrip(SubSeq(text, start, end - 1))
        ELSE text

\* json.loads: a text that is exactly one JSON value parses, any other
\* raises JSONDecodeError
JsonParses(json_str) ==
    LET text == TokStrip(json_str)
    IN  Len(text) = 1 /\ text[1].k = "json"

JsonLoads(json_str) == TokStrip(json_str)[1].v

Returned(data, errors, validated_with) ==
    [raised |-> FALSE, data |-> data, errors |-> errors,
     validated_with |-> validated_with]

Raised(validated_with) ==
    [raised |-> TRUE, data |-> NoneData, errors |-> <<>>,
     validated_with |-> validated_with]

\* validate_output that hands back the parsed object without validating it
validate_output_Coerces(llm_output, target_schema) ==
    LET json_str == _extract_json_from_markdown(llm_output)
    IN  IF ~JsonParses(json_str)
        THEN Returned(NoneData, <<"Invalid JSON">>, {})
        ELSE LET data == JsonLoads(json_str)
             IN  IF data.t # "object" \/ (data.has_error /\ data.n = 1)
                 THEN Returned(NoneData, <<"LLM rejected input">>, {})
                 ELSE Returned(Instance(target_schema, data.rec), <<>>, {})

\* validate_output: the pair it returns, or raised when an exception other
\* than JSONDecodeError leaves its first try block; validated_with is the
\* set of schema classes it constructed
validate_output(llm_output, target_schema) ==
    LET json_str == _extract_json_from_markdown(llm_output)
    IN  IF ~JsonParses(json_str)
        THEN Returned(NoneData, <<"Invalid JSON">>, {})
        ELSE
        LET data == JsonLoads(json_str)
        IN  IF data.t \in {"null", "number"}
            \* "error" in data: TypeError, not a JSONDecodeError
            THEN Raised({})
            ELSE IF data.has_error /\ data.n = 1
            THEN IF data.t = "object"
                 THEN Returned(NoneData, <<"LLM rejected input">>, {})
                 \* data['error'] on a list or a string: TypeError
                 ELSE Raised({})
            ELSE IF data.t # "object"
            \* target_schema(**data): TypeError, caught by except Exception
            THEN Returned(NoneData, <<"Validation failed">>, {target_schema})
            ELSE LET errs == SchemaErrors(target_schema, data.rec)
                 IN  IF errs = <<>>
                     THEN Returned(Instance(target_schema, data.rec), <<>>,
                                   {target_schema})
                     ELSE Returned(NoneData, errs, {target_schema})

\* the result of one repair_and_normalize call
RepairResult(data, errors, llm_calls, validated_with) ==
    [raised |-> FALSE, data |-> data, errors |-> errors,
     llm_calls |-> llm_calls, validated_with |-> validated_with]

\* repair_and_normalize whose handler returns the errors collected so far
repair_and_normalize_DropsError(reg, table_number, schema_arg, llm) ==
    LET target_schema ==
            IF schema_arg = "None" THEN get_schema_for_table(reg, table_number)
            ELSE schema_arg
    IN  IF target_schema = "None"
        THEN RepairResult(NoneData, <<"No schema found for table">>, 0, {})
        ELSE IF llm.raises
        THEN RepairResult(NoneData, <<>>, 1, {})
        ELSE LET v == validate_output(llm.output, target_schema)
             IN  IF v.raised
                 THEN RepairResult(NoneData, <<>>, 1, v.validated_with)
                 ELSE IF Truthy(v.data)
                 THEN RepairResult(v.data, <<>>, 1, v.validated_with)
                 ELSE RepairResult(NoneData, v.errors, 1, v.validated_with)

\* repair_and_normalize that queries the model before it looks for a schema
repair_and_normalize_QueriesFirst(reg, table_number, schema_arg, llm) ==
    LET target_schema ==
            IF schema_arg = "None" THEN get_schema_for_table(reg, table_number)
            ELSE schema_arg
    IN  IF llm.raises
        THEN RepairResult(NoneData, <<"LLM request failed">>, 1, {})
        ELSE IF target_schema = "None"
        THEN RepairResult(NoneData, <<"No schema found for table">>, 1, {})
        ELSE LET v == validate_output(llm.output, target_schema)
             IN  IF v.raised
                 THEN RepairResult(NoneData, <<"LLM request failed">>, 1,
                                   v.validated_with)
                 ELSE IF Truthy(v.data)
                 THEN RepairResult(v.data, <<>>, 1, v.validated_with)
                 ELSE RepairResult(NoneData, v.errors, 1, v.validated_with)

\* repair_and_normalize that queries the model a second time, with the
\* same response, after a rejected response
repair_and_normalize_RetriesRejected(reg, table_number, schema_arg, llm) ==
    LET target_schema ==
            IF schema_arg = "None" THEN get_schema_for_table(reg, table_number)
            ELSE schema_arg
    IN  IF target_schema = "None"
        THEN RepairResult(NoneData, <<"No schema found for table">>, 0, {})
        ELSE IF llm.raises
        THEN RepairResult(NoneData, <<"LLM request failed">>, 1, {})
        ELSE LET v == validate_output(llm.output, target_schema)
             IN  IF v.raised
                 THEN RepairResult(NoneData, <<"LLM request failed">>, 2,
                                   v.validated_with)
                 ELSE IF Truthy(v.data)
                 THEN RepairResult(v.data, <<>>, 1, v.validated_with)
                 ELSE RepairResult(NoneData, v.errors, 2, v.validated_with)

\* repair_and_normalize(raw_table, table_number, vintage, target_schema),
\* with llm what the model service does when it is called
repair_and_normalize(reg, table_number, schema_arg, llm) ==
    LET target_schema ==
            IF schema_arg = "None" THEN get_schema_for_table(reg, table_number)
            ELSE schema_arg
    IN  IF target_schema = "None"
        THEN RepairResult(NoneData, <<"No schema found for table">>, 0, {})
        ELSE IF llm.raises
        \* except Exception around client.generate
        THEN RepairResult(NoneData, <<"LLM request failed">>, 1, {})
        ELSE LET v == validate_output(llm.output, target_schema)
             IN  IF v.raised
                 \* the same handler catches what validate_output lets out
                 THEN RepairResult(NoneData, <<"LLM request failed">>, 1,
                                   v.validated_with)
                 ELSE IF Truthy(v.data)
                 THEN RepairResult(v.data, <<>>, 1, v.validated_with)
                 ELSE RepairResult(NoneData, v.errors, 1, v.validated_with)

(***************************************************************************)
(* pymupdf_extractor.py: the Extraction Validator.                         *)
(***************************************************************************)
Pipe == "|"

RECURSIVE SplitLines(_)
\* str.split("\n")
SplitLines(s) ==
    IF \E i \in 1..Len(s) : s[i] = "\n"
    THEN LET i == CHOOSE i \in 1..Len(s) :
                    s[i] = "\n" /\ \A j \in 1..(i - 1) : s[j] # "\n"
         IN  <<SubSeq(s, 1, i - 1)>> \o SplitLines(SubSeq(s, i + 1, Len(s)))
    ELSE <<s>>

RECURSIVE CountChar(_, _)
\* str.count(c)
CountChar(s, c) ==
    IF s = <<>> THEN 0
    ELSE (IF Head(s) = c THEN 1 ELSE 0) + CountChar(Tail(s), c)

RECURSIVE CountEmptyCells(_)
\* len(re.findall(r"\|\s*\|", row)): non-overlapping matches, left to right
CountEmptyCells(row) ==
    IF row = <<>> THEN 0
    ELSE IF Head(row) = Pipe
         THEN LET after == LStrip(Tail(row))
              IN  IF after # <<>> /\ Head(after) = Pipe
                  THEN 1 + CountEmptyCells(Tail(after))
                  ELSE CountEmptyCells(Tail(row))
         ELSE CountEmptyCells(Tail(row))

RECURSIVE SumSeq(_)
SumSeq(q) == IF q = <<>> THEN 0 ELSE Head(q) + SumSeq(Tail(q))

\* the lines that are table rows: line.strip().startswith("|")
SelectRows(q) == SelectSeq(q, LAMBDA line : StartsWith(Strip(line), <<Pipe>>))

Max(a, b) == IF a >= b THEN a ELSE b

\* _estimate_empty_ratio: the quotient as numerator and divisor
_estimate_empty_ratio(markdown_text) ==
    LET rows == SelectRows(SplitLines(markdown_text))
        empty_cells ==
            SumSeq([i \in 1..Len(rows) |-> CountEmptyCells(rows[i])])
        total_cells ==
            SumSeq([i \in 1..Len(rows) |-> CountChar(rows[i], Pipe) - 1])
    IN  IF rows = <<>> THEN [num |-> 0, den |-> 1]
        ELSE [num |-> empty_cells, den |-> Max(total_cells, 1)]

\* ratio > 0.2
Above20Percent(ratio) == 5 * ratio.num > ratio.den

ErrorIf(cond, msg) == IF cond THEN <<msg>> ELSE <<>>

\* ValidationResult; raised marks a call that ended in an exception
ValidationResult(passed, errors, warnings, confidence) ==
    [raised |-> FALSE, passed |-> passed, errors |-> errors,
     warnings |-> warnings, confidence |-> confidence]

ValidationRaised ==
    [raised |-> TRUE, passed |-> FALSE, errors |-> <<>>, warnings |-> <<>>,
     confidence |-> 0]

\* validate_extraction that counts a warning against the table
validate_extraction_WarningsFail(table, min_rows, min_cols, min_confidence) ==
    LET errors ==
            ErrorIf(table.estimated_cols < min_cols, "Too few columns")
            \o ErrorIf(table.estimated_rows < min_rows, "Too few rows")
            \o ErrorIf(table.confidence < min_confidence, "Low confidence")
            \o ErrorIf(~StartsWith(Strip(table.markdown_text), <<Pipe>>),
                       "Malformed table")
        warnings ==
            ErrorIf(Above20Percent(_estimate_empty_ratio(table.markdown_text)),
                    "High empty cell ratio")
    IN  ValidationResult(errors = <<>> /\ warnings = <<>>, errors, warnings,
                         table.confidence)

\* validate_extraction that rejects a table with exactly min_rows rows
validate_extraction_StrictRows(table, min_rows, min_cols, min_confidence) ==
    LET errors ==
            ErrorIf(table.estimated_cols < min_cols, "Too few columns")
            \o ErrorIf(table.estimated_rows <= min_rows, "Too few rows")
            \o ErrorIf(table.confidence < min_confidence, "Low confidence")
            \o ErrorIf(~StartsWith(Strip(table.markdown_text), <<Pipe>>),
                       "Malformed table")
        warnings ==
            ErrorIf(Above20Percent(_estimate_empty_ratio(table.markdown_text)),
                    "High empty cell ratio")
    IN  ValidationResult(errors = <<>>, errors, warnings, table.confidence)

\* validate_extraction that stops at the first rule violated
validate_extraction_ShortCircuit(table, min_rows, min_cols, min_confidence) ==
    LET errors ==
            IF table.estimated_cols < min_cols THEN <<"Too few columns">>
            ELSE IF table.estimated_rows < min_rows THEN <<"Too few rows">>
            ELSE IF table.confidence < min_confidence
                 THEN <<"Low confidence">>
            ELSE ErrorIf(~StartsWith(Strip(table.markdown_text), <<Pipe>>),
                         "Malformed table")
        warnings ==
            ErrorIf(Above20Percent(_estimate_empty_ratio(table.markdown_text)),
                    "High empty cell ratio")
    IN  ValidationResult(errors = <<>>, errors, warnings, table.confidence)

\* validate_extraction without the malformed-table rule
validate_extraction_NoMalformedRule(table, min_rows, min_cols, min_confidence) ==
    LET errors ==
            ErrorIf(table.estimated_cols < min_cols, "Too few columns")
            \o ErrorIf(table.estimated_rows < min_rows, "Too few rows")
            \o ErrorIf(table.confidence < min_confidence, "Low confidence")
        warnings ==
            ErrorIf(Above20Percent(_estimate_empty_ratio(table.markdown_text)),
                    "High empty cell ratio")
    IN  ValidationResult(errors = <<>>, errors, warnings, table.confidence)

\* validate_extraction: the four error rules in the order of the code, the
\* warning rule, and passed = (len(errors) == 0)
validate_extraction(table, min_rows, min_cols, min_confidence) ==
    LET empty_ratio == _estimate_empty_ratio(table.markdown_text)
        errors ==
            ErrorIf(table.estimated_cols < min_cols, "Too few columns")
            \o ErrorIf(table.estimated_rows < min_rows, "Too few rows")
            \o ErrorIf(table.confidence < min_confidence, "Low confidence")
            \o ErrorIf(~StartsWith(Strip(table.markdown_text), <<Pipe>>),
                       "Malformed table")
        warnings ==
            ErrorIf(Above20Percent(empty_ratio), "High empty cell ratio")
    IN  \* empty_cells / max(total_cells, 1): ZeroDivisionError on a zero divisor
        IF empty_ratio.den = 0 THEN ValidationRaised
        ELSE ValidationResult(Len(errors) = 0, errors, warnings,
                              table.confidence)

(***************************************************************************)
(* A caller of the Validator: a MarkdownTable and thresholds, then one     *)
(* validate_extraction call.                                               *)
(***************************************************************************)
TextAlphabet == {Pipe, " ", "x", "\n"}

BlockTexts == SeqsUpTo(TextAlphabet, MaxTextLen)

\* confidence scores, per mille
ConfidenceLevels == {500, 800, 1000}

\* MarkdownTable: any values of the dataclass's fields
MarkdownTables ==
    [markdown_text : BlockTexts,
     estimated_rows : 0..MaxEstimate,
     estimated_cols : 0..MaxEstimate,
     confidence : ConfidenceLevels]

MinRowsChoices == {0, 1, 3}
MinColsChoices == {1, 2}
MinConfidenceChoices == {800, 900}

NoTable ==
    [markdown_text |-> <<>>, estimated_rows |-> 0, estimated_cols |-> 0,
     confidence |-> 0]

ValIdle ==
    [pc |-> "idle", table |-> NoTable, min_rows |-> 0, min_cols |-> 0,
     min_confidence |-> 0, result |-> ValidationResult(FALSE, <<>>, <<>>, 0)]

ValInputs ==
    {[pc |-> "ready", table |-> t, min_rows |-> mr, min_cols |-> mc,
      min_confidence |-> mf, result |-> ValidationResult(FALSE, <<>>, <<>>, 0)] :
        t \in MarkdownTables, mr \in MinRowsChoices, mc \in MinColsChoices,
        mf \in MinConfidenceChoices}

\* extractor.validate_extraction(table, min_rows, min_cols, min_confidence)
Validate ==
    /\ val.pc = "ready"
    /\ val' = [val EXCEPT
                 !.pc = "validated",
                 !.result = validate_extraction(val.table, val.min_rows,
                                                val.min_cols,
                                                val.min_confidence)]
    /\ UNCHANGED <<registry, lk, rep, norm, pipe, leg, meta, cln, mx, fx, mrg, spl>>

(***************************************************************************)
(* marker_extractor.py: normalize_structure.  A cell is a string, here a   *)
(* sequence of characters; "" is <<>>.                                     *)
(***************************************************************************)
\* any(cell.strip() for cell in row)
AnyCellFilled(row) == \E i \in 1..Len(row) : Strip(row[i]) # <<>>

\* row + [""] * (n - len(row)); a negative count adds nothing
PadRow(row, n) == row \o [i \in 1..(n - Len(row)) |-> <<>>]

\* max(len(row) for row in rows), rows not empty
MaxRowLen(rows) ==
    CHOOSE m \in {Len(rows[i]) : i \in 1..Len(rows)} :
        \A i \in 1..Len(rows) : Len(rows[i]) <= m

MarkerTable(cells, headers, page_number, bboxes) ==
    [cells |-> cells, headers |-> headers, page_number |-> page_number,
     bboxes |-> bboxes]

\* normalize_structure that pads every row to the header's own width
normalize_structure_PadsToHeader(table) ==
    IF table.cells = <<>> THEN table
    ELSE
    LET cells == table.cells
        filled == {i \in 1..Len(cells) : AnyCellFilled(cells[i])}
        header_row_idx ==
            IF filled = {} THEN 1
            ELSE CHOOSE i \in filled : \A j \in filled : i <= j
        headers == cells[header_row_idx]
        data_rows ==
            SelectSeq(SubSeq(cells, header_row_idx + 1, Len(cells)),
                      AnyCellFilled)
        max_cols == Len(headers)
    IN  MarkerTable(
            (IF headers # <<>> THEN <<headers>> ELSE <<>>)
                \o [i \in 1..Len(data_rows) |-> PadRow(data_rows[i], max_cols)],
            headers, table.page_number, table.bboxes)

\* normalize_structure that returns the header row as it found it, without
\* the padding the grid's first row gets
normalize_structure_UnpaddedHeaders(table) ==
    IF table.cells = <<>> THEN table
    ELSE
    LET cells == table.cells
        filled == {i \in 1..Len(cells) : AnyCellFilled(cells[i])}
        header_row_idx ==
            IF filled = {} THEN 1
            ELSE CHOOSE i \in filled : \A j \in filled : i <= j
        headers == cells[header_row_idx]
        data_rows ==
            SelectSeq(SubSeq(cells, header_row_idx + 1, Len(cells)),
                      AnyCellFilled)
        max_cols ==
            IF data_rows # <<>> THEN MaxRowLen(<<headers>> \o data_rows)
            ELSE Len(headers)
    IN  MarkerTable(
            (IF headers # <<>> THEN <<PadRow(headers, max_cols)>> ELSE <<>>)
                \o [i \in 1..Len(data_rows) |-> PadRow(data_rows[i], max_cols)],
            headers, table.page_number, table.bboxes)

\* normalize_structure
normalize_structure(table) ==
    IF table.cells = <<>> THEN table
    ELSE
    LET cells == table.cells
        \* the first row with a non-empty cell, row 0 when there is none
        filled == {i \in 1..Len(cells) : AnyCellFilled(cells[i])}
        header_row_idx ==
            IF filled = {} THEN 1
            ELSE CHOOSE i \in filled : \A j \in filled : i <= j
        headers == cells[header_row_idx]
        data_rows ==
            SelectSeq(SubSeq(cells, header_row_idx + 1, Len(cells)),
                      AnyCellFilled)
        max_cols ==
            IF data_rows # <<>> THEN MaxRowLen(<<headers>> \o data_rows)
            ELSE Len(headers)
        padded_headers ==
            IF headers # <<>> THEN PadRow(headers, max_cols) ELSE headers
    IN  MarkerTable(
            (IF headers # <<>> THEN <<padded_headers>> ELSE <<>>)
                \o [i \in 1..Len(data_rows) |-> PadRow(data_rows[i], max_cols)],
            padded_headers, table.page_number, table.bboxes)

(***************************************************************************)
(* A caller of the Layout Extractor's normalization: a MarkerTable, then   *)
(* one normalize_structure call.                                           *)
(***************************************************************************)
\* a blank cell and a filled cell
CellChoices == {<<" ">>, <<"a">>}

GridRows == SeqsUpTo(CellChoices, MaxGridCols)

Grids == SeqsUpTo(GridRows, MaxGridRows)

\* the header field of an input: the grid's first row, as
\* _extract_tables_from_result sets it, or any other list
HeaderChoices(cells) ==
    {IF cells = <<>> THEN <<>> ELSE cells[1], <<<<"a">>>>}

LayoutPage == 50

\* the MarkerTables whose cell grid is g
MarkerTables(g) ==
    {MarkerTable(g, h, LayoutPage, "None") : h \in HeaderChoices(g)}

NormIdle ==
    [pc |-> "idle", table |-> MarkerTable(<<>>, <<>>, 0, "None"),
     result |-> MarkerTable(<<>>, <<>>, 0, "None"),
     again |-> MarkerTable(<<>>, <<>>, 0, "None")]

\* extractor.normalize_structure(table)
Normalize ==
    /\ norm.pc = "ready"
    /\ norm' = [norm EXCEPT !.pc = "normalized",
                            !.result = normalize_structure(norm.table)]
    /\ UNCHANGED <<registry, lk, rep, val, pipe, leg, meta, cln, mx, fx, mrg, spl>>

\* extractor.normalize_structure(normalized): the table that came back is
\* normalized once more
NormalizeAgain ==
    /\ norm.pc = "normalized"
    /\ norm' = [norm EXCEPT !.pc = "renormalized",
                            !.again = normalize_structure(norm.result)]
    /\ UNCHANGED <<registry, lk, rep, val, pipe, leg, meta, cln, mx, fx, mrg, spl>>

(***************************************************************************)
(* A caller of the Repair Engine: one repair_and_normalize call at a time. *)
(***************************************************************************)
RepairTableNumbers ==
    {N_3_2_2_2, TablePrefix \o N_3_2_2_2, N_3_2_1_4, N_99_99_99}

\* the target_schema argument: None (auto-detect) or a schema class
SchemaArgs == {"None", "EnvelopeTable"}

NoLLM == [raises |-> FALSE, output |-> <<>>]

RepIdle ==
    [pc |-> "idle", table_number |-> <<>>, schema_arg |-> "None",
     llm |-> NoLLM, result |-> RepairResult(NoneData, <<>>, 0, {})]

\* a call of repair_and_normalize, from entry to return
Repair ==
    /\ rep.pc = "idle"
    /\ \E tn \in RepairTableNumbers, sa \in SchemaArgs, v \in JsonValues :
        \E llm \in LLMFailures \cup LLMResponses(v) :
          rep' = [pc |-> "returned", table_number |-> tn, schema_arg |-> sa,
                  llm |-> llm,
                  result |-> repair_and_normalize(registry, tn, sa, llm)]
    /\ UNCHANGED <<registry, lk, val, norm, pipe, leg, meta, cln, mx, fx, mrg, spl>>

\* the caller takes the result; the repairer is ready for the next table
RepairNext ==
    /\ rep.pc = "returned"
    /\ rep' = RepIdle
    /\ UNCHANGED <<registry, lk, val, norm, pipe, leg, meta, cln, mx, fx, mrg, spl>>

(***************************************************************************)
(* The Pipeline Orchestrator (spec section 4.8).  Its module,              *)
(* parser_v2/hybrid_parser.py, is not among the sources (the import in     *)
(* parser_v2/__init__.py is commented out); it is modelled from the spec.  *)
(* The Validator, the normalization and the Repair Engine it calls are     *)
(* the operators modelled from the code above.                             *)
(***************************************************************************)
\* validate_extraction's default thresholds and ParserConfig's confidence
DefaultMinRows == 1
DefaultMinCols == 2
PyMuPDFMinConfidence == 800

\* blocks the Fast Extractor may return for a page
FastSamples ==
    { [markdown_text |-> <<Pipe, "x", Pipe>>, estimated_rows |-> 1,
       estimated_cols |-> 2, confidence |-> 1000],
      [markdown_text |-> <<Pipe, " ", Pipe>>, estimated_rows |-> 1,
       estimated_cols |-> 2, confidence |-> 600] }

\* grids the Layout Extractor may return for a page
LayoutSamples ==
    { MarkerTable(<<<<<<"a">>>>, <<<<"a">>, <<"a">>>>>>, <<<<"a">>>>, 0, "None") }

\* table numbers the Metadata Extractor may hand on
PipelineTableNumbers ==
    {TablePrefix \o N_3_2_2_2, TablePrefix \o N_3_2_2_2 \o <<".">>}

BadRecord == [GoodRecord EXCEPT !.vintage = "1999"]

\* what the model service may do in one call
PipelineLLM ==
    { [raises |-> TRUE, output |-> <<>>],
      [raises |-> FALSE, output |-> <<Json(JObject(GoodRecord))>>],
      [raises |-> FALSE, output |-> <<Json(JObject(BadRecord))>>] }

\* ParseOutcome (models.ParseResult), with the stage that produced the raw
\* table and the table identity it belongs to
ParseOutcome(success, data, method_used, errors, source, table_number) ==
    [success |-> success, data |-> data, method_used |-> method_used,
     llm_applied |-> TRUE, errors |-> errors, source |-> source,
     table_number |-> table_number]

\* one table through Metadata and Repair: the outcome recorded for it
ProcessTable(source, table_number, llm) ==
    LET r == repair_and_normalize(registry, table_number, "None", llm)
    IN  IF r.data # NoneData
        THEN ParseOutcome(TRUE, r.data, source, <<>>, source, table_number)
        ELSE ParseOutcome(FALSE, NoneData, "failed", r.errors, source,
                          table_number)

PipeInit ==
    [pc |-> "fast", page |-> 1, fast |-> <<>>, passed |-> <<>>,
     layout |-> <<>>, layout_invoked |-> FALSE, layout_runs |-> 0,
     next |-> 1, outcomes |-> <<>>, recorded |-> 0, succeeded |-> 0]

PipeIdle == [PipeInit EXCEPT !.pc = "idle"]

\* the positions of the fast tables that passed the Validator
PassedFast == {i \in 1..Len(pipe.passed) : pipe.passed[i]}

\* an orchestrator that falls back to the Layout Extractor on every page
FastExtract_AlwaysFallsBack ==
    /\ pipe.pc = "fast"
    /\ \E tables \in SeqsUpTo(FastSamples, MaxPageTables) :
          LET passed ==
                [i \in 1..Len(tables) |->
                    validate_extraction(tables[i], DefaultMinRows,
                                        DefaultMinCols,
                                        PyMuPDFMinConfidence).passed]
          IN  pipe' = [pipe EXCEPT
                        !.fast = tables,
                        !.passed = passed,
                        !.next = 1,
                        !.pc = "layout"]
    /\ UNCHANGED <<registry, lk, rep, val, norm, leg, meta, cln, mx, fx, mrg, spl>>

\* per page: run the Fast Extractor and the Validator on each result
FastExtract ==
    /\ pipe.pc = "fast"
    /\ \E tables \in SeqsUpTo(FastSamples, MaxPageTables) :
          LET passed ==
                [i \in 1..Len(tables) |->
                    validate_extraction(tables[i], DefaultMinRows,
                                        DefaultMinCols,
                                        PyMuPDFMinConfidence).passed]
          IN  pipe' = [pipe EXCEPT
                        !.fast = tables,
                        !.passed = passed,
                        !.next = 1,
                        !.pc = IF \E i \in 1..Len(tables) : passed[i]
                               THEN "repair_fast" ELSE "layout"]
    /\ UNCHANGED <<registry, lk, rep, val, norm, leg, meta, cln, mx, fx, mrg, spl>>

\* a fast table that passed goes through Cleaner, Metadata and Repair;
\* a rejected one is passed over
RepairFast ==
    /\ pipe.pc = "repair_fast"
    /\ pipe.next <= Len(pipe.fast)
    /\ IF pipe.passed[pipe.next]
       THEN \E tn \in PipelineTableNumbers, llm \in PipelineLLM :
              pipe' = [pipe EXCEPT
                        !.outcomes = Append(@, ProcessTable("fast", tn, llm)),
                        !.next = @ + 1]
       ELSE pipe' = [pipe EXCEPT !.next = @ + 1]
    /\ UNCHANGED <<registry, lk, rep, val, norm, leg, meta, cln, mx, fx, mrg, spl>>

\* no fast table passed: the Layout Extractor, whose whole-document pass
\* runs once per document run, then normalization of the page's tables
LayoutExtract ==
    /\ pipe.pc = "layout"
    /\ \E tables \in SeqsUpTo(LayoutSamples, MaxPageTables) :
          pipe' = [pipe EXCEPT
                    !.layout = [i \in 1..Len(tables) |->
                                  normalize_structure(tables[i])],
                    !.layout_invoked = TRUE,
                    !.layout_runs = IF @ = 0 THEN 1 ELSE @,
                    !.next = 1,
                    !.pc = "repair_layout"]
    /\ UNCHANGED <<registry, lk, rep, val, norm, leg, meta, cln, mx, fx, mrg, spl>>

\* a layout table goes through Cleaner, Metadata and Repair
RepairLayout ==
    /\ pipe.pc = "repair_layout"
    /\ pipe.next <= Len(pipe.layout)
    /\ \E tn \in PipelineTableNumbers, llm \in PipelineLLM :
          pipe' = [pipe EXCEPT
                    !.outcomes = Append(@, ProcessTable("layout", tn, llm)),
                    !.next = @ + 1]
    /\ UNCHANGED <<registry, lk, rep, val, norm, leg, meta, cln, mx, fx, mrg, spl>>

\* the page's tables are done
PageTablesDone ==
    \/ pipe.pc = "repair_fast" /\ pipe.next > Len(pipe.fast)
    \/ pipe.pc = "repair_layout" /\ pipe.next > Len(pipe.layout)

Successes(outcomes) ==
    Cardinality({i \in 1..Len(outcomes) : outcomes[i].success})

\* the page's outcomes are aggregated and the run goes to the next page
NextPage ==
    /\ PageTablesDone
    /\ pipe' = [pipe EXCEPT
                  !.recorded = @ + Len(pipe.outcomes),
                  !.succeeded = @ + Successes(pipe.outcomes),
                  !.page = @ + 1,
                  !.pc = IF pipe.page < NumPages THEN "fast" ELSE "done",
                  !.fast = <<>>, !.passed = <<>>, !.layout = <<>>,
                  !.layout_invoked = FALSE, !.next = 1, !.outcomes = <<>>]
    /\ UNCHANGED <<registry, lk, rep, val, norm, leg, meta, cln, mx, fx, mrg, spl>>

(***************************************************************************)
(* necb_pdf_parser.py: the document run of NECBPDFParser.parse, page by    *)
(* page through _extract_tables_from_page.  What Camelot finds on a page   *)
(* and whether a library call raises is the environment's choice.          *)
(***************************************************************************)
\* what happens to one table of a page when it is reached: it is stored,
\* skipped (too small, or no headers or rows), or processing it raises
TableFates == {"stored", "skipped", "raises"}

LegInit ==
    [pc |-> "page", page |-> 1, found |-> <<>>, visited |-> {},
     failed_at |-> {}, failures |-> {}, tables |-> <<>>, warnings |-> 0]

LegIdle == [LegInit EXCEPT !.pc = "idle"]

RECURSIVE StoredUpTo(_, _, _)
\* the tables self.tables.append stores from the first k tables of page p
StoredUpTo(p, fates, k) ==
    IF k = 0 THEN <<>>
    ELSE StoredUpTo(p, fates, k - 1)
         \o (IF fates[k] = "stored" THEN <<<<p, k>>>> ELSE <<>>)

\* one iteration of parse's page loop: _extract_tables_from_page(page_num).
\* The try block spans camelot.read_pdf and the loop over the page's
\* tables; its except clause prints a warning and returns.
ExtractTablesFromPage ==
    /\ leg.pc = "page"
    /\ \E read_raises \in BOOLEAN, n \in 0..MaxPageTables :
        \E fates \in [1..n -> TableFates] :
          LET p == leg.page
              raising == {i \in 1..n : fates[i] = "raises"}
              \* the table at which the loop is left, n + 1 when it ends
              stop == IF raising = {} THEN n + 1
                      ELSE CHOOSE i \in raising : \A j \in raising : i <= j
          IN  IF read_raises
              THEN /\ n = 0
                   /\ leg' = [leg EXCEPT
                               !.found = Append(@, 0),
                               !.warnings = @ + 1,
                               !.page = @ + 1,
                               !.pc = IF p < NumPages THEN "page" ELSE "done"]
              ELSE leg' = [leg EXCEPT
                            !.found = Append(@, n),
                            !.visited = @ \cup {<<p, i>> : i \in 1..(stop - 1)},
                            !.failed_at =
                                IF stop <= n THEN @ \cup {<<p, stop>>} ELSE @,
                            !.tables = @ \o StoredUpTo(p, fates, stop - 1),
                            !.warnings = IF stop <= n THEN @ + 1 ELSE @,
                            !.page = @ + 1,
                            !.pc = IF p < NumPages THEN "page" ELSE "done"]
    /\ UNCHANGED <<registry, lk, rep, val, norm, pipe, meta, cln, mx, fx, mrg, spl>>

(***************************************************************************)
(* necb_pdf_parser.py: the Metadata Extractor, _extract_table_metadata.    *)
(* The regular expressions are computed the way Python's backtracking      *)
(* matcher does: every stage lists the positions it can end at, in the     *)
(* order the matcher tries them, and the first complete match wins.        *)
(* Positions are 1-based: a match [g, e) covers the characters g..e-1.     *)
(***************************************************************************)
Digits == {"0", "1", "2", "3", "4", "5", "6", "7", "8", "9"}

UpperCase ==
    {"A", "B", "C", "D", "E", "F", "G", "H", "I", "J", "K", "L", "M",
     "N", "O", "P", "Q", "R", "S", "T", "U", "V", "W", "X", "Y", "Z"}

RECURSIVE RunLen(_, _, _)
\* how many characters of text from position i on are in class
RunLen(text, i, class) ==
    IF i <= Len(text) /\ text[i] \in class
    THEN 1 + RunLen(text, i + 1, class)
    ELSE 0

RECURSIVE FlatCat(_)
\* the concatenation of a sequence of sequences
FlatCat(qs) == IF qs = <<>> THEN <<>> ELSE Head(qs) \o FlatCat(Tail(qs))

\* a literal
LitEnds(text, i, lit) ==
    IF i + Len(lit) - 1 <= Len(text) /\ SubSeq(text, i, i + Len(lit) - 1) = lit
    THEN <<i + Len(lit)>>
    ELSE <<>>

\* class+ (greedy): the longest run first
PlusEnds(text, i, class) ==
    LET n == RunLen(text, i, class)
    IN  [k \in 1..n |-> i + n - k + 1]

\* x? (greedy): with x first, then without
OptEnds(ends, i) == ends \o <<i>>

\* \.\d+
DotDigitsEnds(text, i) ==
    IF i <= Len(text) /\ text[i] = "." THEN PlusEnds(text, i + 1, Digits)
    ELSE <<>>

RECURSIVE StarDotDigitsEnds(_, _)
\* (?:\.\d+)* (greedy): one more group first, then none
StarDotDigitsEnds(text, i) ==
    LET once == DotDigitsEnds(text, i)
    IN  FlatCat([k \in 1..Len(once) |-> StarDotDigitsEnds(text, once[k])])
        \o <<i>>

\* \.[A-Z]
DotLetterEnds(text, i) ==
    IF i + 1 <= Len(text) /\ text[i] = "." /\ text[i + 1] \in UpperCase
    THEN <<i + 2>>
    ELSE <<>>

\* \(\d+\)
SubIndexEnds(text, i) ==
    IF i <= Len(text) /\ text[i] = "("
    THEN LET ds == PlusEnds(text, i + 1, Digits)
             closed == SelectSeq(ds, LAMBDA d : d <= Len(text) /\ text[d] = ")")
         IN  [k \in 1..Len(closed) |-> closed[k] + 1]
    ELSE <<>>

\* the stages of group 1 of table_pattern:
\* [A-Z]? -? \d+ (?:\.\d+)* (?:\.[A-Z])? \. (?:\(\d+\))?
NumberStageEnds(text, i, stage) ==
    CASE stage = 1 ->
            OptEnds(IF i <= Len(text) /\ text[i] \in UpperCase
                    THEN <<i + 1>> ELSE <<>>, i)
      [] stage = 2 -> OptEnds(LitEnds(text, i, <<"-">>), i)
      [] stage = 3 -> PlusEnds(text, i, Digits)
      [] stage = 4 -> StarDotDigitsEnds(text, i)
      [] stage = 5 -> OptEnds(DotLetterEnds(text, i), i)
      [] stage = 6 -> LitEnds(text, i, <<".">>)
      [] stage = 7 -> OptEnds(SubIndexEnds(text, i), i)

RECURSIVE NumberEnds(_, _, _)
\* where group 1 can end when its stages from stage on start at i
NumberEnds(text, i, stage) ==
    IF stage > 7 THEN <<i>>
    ELSE LET ends == NumberStageEnds(text, i, stage)
         IN  FlatCat([k \in 1..Len(ends) |->
                        NumberEnds(text, ends[k], stage + 1)])

\* table_pattern matched at position p: the group's bounds, <<>> if none
TablePatternAt(text, p) ==
    LET word == LitEnds(text, p, <<"T", "a", "b", "l", "e">>)
        spaces == IF word = <<>> THEN <<>>
                  ELSE PlusEnds(text, word[1], Whitespace)
        found ==
            FlatCat([k \in 1..Len(spaces) |->
                LET ends == NumberEnds(text, spaces[k], 1)
                IN  [j \in 1..Len(ends) |-> [g |-> spaces[k], e |-> ends[j]]]])
    IN  IF found = <<>> THEN <<>> ELSE <<found[1]>>

RECURSIVE FindIter(_, _)
\* re.finditer(table_pattern, page_text): non-overlapping, left to right
FindIter(text, p) ==
    IF p > Len(text) THEN <<>>
    ELSE LET m == TablePatternAt(text, p)
         IN  IF m # <<>> THEN m \o FindIter(text, m[1].e)
             ELSE FindIter(text, p + 1)

\* the end markers of a title, matched at position p
EndMarkerAt(text, p) ==
    \/ LitEnds(text, p, <<"\n", "F", "o", "r", "m", "i", "n", "g", " ",
                          "P", "a", "r", "t">>) # <<>>
    \/ LitEnds(text, p, <<"\n", "N", "o", "t", "e", "s", " ", "t", "o", " ",
                          "T", "a", "b", "l", "e">>) # <<>>
    \* \n\d+\.\d+
    \/ /\ LitEnds(text, p, <<"\n">>) # <<>>
       /\ \E d \in 1..RunLen(text, p + 1, Digits) :
             /\ p + 1 + d + 1 <= Len(text)
             /\ text[p + 1 + d] = "."
             /\ text[p + 1 + d + 1] \in Digits
    \* \nTable \d+
    \/ /\ LitEnds(text, p, <<"\n">> \o TablePrefix) # <<>>
       /\ RunLen(text, p + 1 + Len(TablePrefix), Digits) >= 1

\* min over the markers of where re.search first finds one at or after
\* start; len(page_text) when none is found
TitleEnd(text, start) ==
    LET hits == {p \in start..Len(text) : EndMarkerAt(text, p)}
    IN  IF hits = {} THEN Len(text) + 1
        ELSE CHOOSE p \in hits : \A q \in hits : p <= q

RECURSIVE JoinSpaced(_)
\* ' '.join(lines)
JoinSpaced(lines) ==
    IF lines = <<>> THEN <<>>
    ELSE IF Len(lines) = 1 THEN lines[1]
    ELSE lines[1] \o <<" ">> \o JoinSpaced(Tail(lines))

RECURSIVE CollapseSpace(_)
\* re.sub(r'\s+', ' ', title)
CollapseSpace(s) ==
    IF s = <<>> THEN <<>>
    ELSE IF Head(s) \in Whitespace
         THEN <<" ">> \o CollapseSpace(LStrip(s))
         ELSE <<Head(s)>> \o CollapseSpace(Tail(s))

TitleMaxLen == 200
TitleKeptLen == 197
TitleLines == 3

\* default_title = "Untitled Table"
DefaultTitle ==
    <<"U", "n", "t", "i", "t", "l", "e", "d", " ", "T", "a", "b", "l", "e">>

DigitChars == <<"0", "1", "2", "3", "4", "5", "6", "7", "8", "9">>

RECURSIVE Decimal(_)
\* str(n) of a natural number
Decimal(n) ==
    IF n < 10 THEN <<DigitChars[n + 1]>>
    ELSE Decimal(n \div 10) \o <<DigitChars[(n % 10) + 1]>>

\* f"Table-{page_number}-{table_idx}"
DefaultNumber(page_number, table_idx) ==
    <<"T", "a", "b", "l", "e", "-">> \o Decimal(page_number) \o <<"-">>
    \o Decimal(table_idx)

\* the title that follows the match ending at e
ExtractTitle(page_text, e) ==
    LET title_text == Strip(SubSeq(page_text, e, TitleEnd(page_text, e) - 1))
        split == SplitLines(title_text)
        first == SubSeq(split, 1, IF Len(split) < TitleLines
                                  THEN Len(split) ELSE TitleLines)
        stripped == [k \in 1..Len(first) |-> Strip(first[k])]
        title_lines == SelectSeq(stripped, LAMBDA line : line # <<>>)
        title == CollapseSpace(JoinSpaced(title_lines))
    IN  IF title_lines = <<>> THEN DefaultTitle
        ELSE IF Len(title) > TitleMaxLen
             THEN SubSeq(title, 1, TitleKeptLen) \o <<".", ".", ".">>
             ELSE title

\* _extract_table_metadata that takes the page's first match for every index
_extract_table_metadata_FirstMatch(page_text, page_number, table_idx) ==
    LET matches == FindIter(page_text, 1)
    IN  IF table_idx < Len(matches)
        THEN LET match == matches[1]
             IN  [table_number |->
                      TablePrefix \o SubSeq(page_text, match.g, match.e - 1),
                  title |-> ExtractTitle(page_text, match.e)]
        ELSE [table_number |-> DefaultNumber(page_number, table_idx),
              title |-> DefaultTitle]

\* _extract_table_metadata(page_text, page_number, table_idx)
_extract_table_metadata(page_text, page_number, table_idx) ==
    LET matches == FindIter(page_text, 1)
    IN  IF table_idx < Len(matches)
        THEN LET match == matches[table_idx + 1]
             IN  [table_number |->
                      TablePrefix \o SubSeq(page_text, match.g, match.e - 1),
                  title |-> ExtractTitle(page_text, match.e)]
        ELSE [table_number |-> DefaultNumber(page_number, table_idx),
              title |-> DefaultTitle]

(***************************************************************************)
(* A caller of the Metadata Extractor: the text of a page, made of table   *)
(* captions in the spellings the documents use, and the index of a table   *)
(* region on the page.                                                     *)
(***************************************************************************)
CaptionNumbers == {N_3_2_2_2, N_8_4_4_8_A, N_99_99_99}

\* "Table 3.2.2.2" / "Table A-3.2.1.4"
CaptionPrefixes == {<<>>, AppendixPrefix}

\* no period, the period, the period and a sub-index
CaptionSuffixes == {<<>>, <<".">>, <<".", "(", "1", ")">>}

\* a caption and the line under it
Captions ==
    {TablePrefix \o pre \o n \o suf \o <<"\n", "U", " ", " ", "m", "\n">> :
        pre \in CaptionPrefixes, n \in CaptionNumbers, suf \in CaptionSuffixes}

\* the captions of a page, in document order
CaptionLists == SeqsUpTo(Captions, MaxPageTables)

PageTexts == {FlatCat(q) : q \in CaptionLists}

MetaIdle ==
    [pc |-> "idle", captions |-> <<>>, page_text |-> <<>>, page_number |-> 0,
     table_idx |-> 0,
     result |-> [table_number |-> <<>>, title |-> DefaultTitle]]

\* self._extract_table_metadata(page_text, page_number, table_idx)
ExtractTableMetadata ==
    /\ meta.pc = "ready"
    /\ meta' = [meta EXCEPT
                  !.pc = "done",
                  !.result = _extract_table_metadata(meta.page_text,
                                                     meta.page_number,
                                                     meta.table_idx)]
    /\ UNCHANGED <<registry, lk, rep, val, norm, pipe, leg, cln, mx, fx, mrg, spl>>

(***************************************************************************)
(* necb_pdf_parser.py: the Table Cleaner, _clean_table_structure.  The     *)
(* grid is the DataFrame after astype(str): rows of equally many cells,    *)
(* each cell a string.  The characters U+2265, U+2264 and U+00B0 are       *)
(* written ">=", "<=" and "deg", each one element of a string.             *)
(***************************************************************************)
GreaterEq == ">="
LessEq == "<="
Degree == "deg"

UpperLetters ==
    <<"A", "B", "C", "D", "E", "F", "G", "H", "I", "J", "K", "L", "M",
      "N", "O", "P", "Q", "R", "S", "T", "U", "V", "W", "X", "Y", "Z">>

LowerLetters ==
    <<"a", "b", "c", "d", "e", "f", "g", "h", "i", "j", "k", "l", "m",
      "n", "o", "p", "q", "r", "s", "t", "u", "v", "w", "x", "y", "z">>

\* str.lower()
Lower(s) ==
    [k \in 1..Len(s) |->
        IF s[k] \in UpperCase
        THEN LowerLetters[CHOOSE j \in 1..Len(UpperLetters) :
                            UpperLetters[j] = s[k]]
        ELSE s[k]]

\* kw in text
Contains(text, kw) ==
    \E p \in 1..(Len(text) - Len(kw) + 1) : SubSeq(text, p, p + Len(kw) - 1) = kw

\* str.isdigit()
IsDigit(s) == s # <<>> /\ \A k \in 1..Len(s) : s[k] \in Digits

\* assembly_names
assembly_names ==
    { <<"w", "a", "l", "l", "s">>, <<"r", "o", "o", "f", "s">>,
      <<"f", "l", "o", "o", "r", "s">>, <<"w", "i", "n", "d", "o", "w", "s">>,
      <<"d", "o", "o", "r", "s">>,
      <<"s", "k", "y", "l", "i", "g", "h", "t", "s">> }

\* cell.replace('.', '').replace(',', '').replace(U+2265, '')
\*     .replace(U+2264, '').replace(' ', '').isdigit()
IsNumericCell(cell) ==
    IsDigit(RemoveAll(RemoveAll(RemoveAll(RemoveAll(RemoveAll(
        cell, <<".">>), <<",">>), <<GreaterEq>>), <<LessEq>>), <<" ">>))

\* the test of the row loop: a known label in the first cell and a numeric
\* cell among the non-blank other cells
IsDataRow(row) ==
    /\ Lower(Strip(row[1])) \in assembly_names
    /\ \E k \in 2..Len(row) : Strip(row[k]) # <<>> /\ IsNumericCell(row[k])

\* [str(cell).strip() for cell in row]
StripCells(row) == [k \in 1..Len(row) |-> Strip(row[k])]

\* the keywords of a header row
HeaderKeywords ==
    { <<"z", "o", "n", "e">>, <<"<", " ">>, <<">", " ">>, <<"t", "o", " ">>,
      <<Degree>>, <<"d", "e", "g", "r", "e", "e">> }

HeaderLookback == 10

\* fill_ratio >= 0.5 and has_header_keywords
LooksLikeHeader(row) ==
    LET non_empty == Cardinality({k \in 1..Len(row) : Strip(row[k]) # <<>>})
        row_text == Lower(JoinSpaced(row))
    IN  /\ 2 * non_empty >= Len(row)
        /\ \E kw \in HeaderKeywords : Contains(row_text, kw)

\* f"Column {i}" for i in range(n)
GenericHeaders(n) ==
    [i \in 1..n |-> <<"C", "o", "l", "u", "m", "n", " ">> \o Decimal(i - 1)]

\* _clean_table_structure that takes every row with a known label for a
\* data row, numbers or not
_clean_table_structure_LabelOnly(df) ==
    IF df = <<>> \/ df[1] = <<>>
    THEN [headers |-> <<>>, rows |-> <<>>]
    ELSE
    LET IsLabelRow(row) == Lower(Strip(row[1])) \in assembly_names
        data_indices == {i \in 1..Len(df) : IsLabelRow(df[i])}
        data_rows == [k \in 1..Len(SelectSeq(df, IsLabelRow)) |->
                        StripCells(SelectSeq(df, IsLabelRow)[k])]
    IN  IF data_indices # {}
        THEN LET first_data_idx ==
                    CHOOSE i \in data_indices : \A j \in data_indices : i <= j
                 back == {b \in Max(1, first_data_idx - HeaderLookback)
                                  ..(first_data_idx - 1) :
                            LooksLikeHeader(df[b])}
                 headers ==
                    IF back # {}
                    THEN StripCells(df[CHOOSE b \in back :
                                          \A c \in back : c <= b])
                    ELSE IF first_data_idx > 1
                    THEN StripCells(df[first_data_idx - 1])
                    ELSE GenericHeaders(Len(data_rows[1]))
             IN  [headers |-> headers, rows |-> data_rows]
        ELSE [headers |-> StripCells(df[1]),
              rows |-> [k \in 1..(Len(df) - 1) |-> StripCells(df[k + 1])]]

\* _clean_table_structure that stops at the first header row it finds
_clean_table_structure_FirstHeader(df) ==
    IF df = <<>> \/ df[1] = <<>>
    THEN [headers |-> <<>>, rows |-> <<>>]
    ELSE
    LET data_indices == {i \in 1..Len(df) : IsDataRow(df[i])}
        data_rows == [k \in 1..Len(SelectSeq(df, IsDataRow)) |->
                        StripCells(SelectSeq(df, IsDataRow)[k])]
    IN  IF data_indices # {}
        THEN LET first_data_idx ==
                    CHOOSE i \in data_indices : \A j \in data_indices : i <= j
                 back == {b \in Max(1, first_data_idx - HeaderLookback)
                                  ..(first_data_idx - 1) :
                            LooksLikeHeader(df[b])}
                 headers ==
                    IF back # {}
                    THEN StripCells(df[CHOOSE b \in back :
                                          \A c \in back : b <= c])
                    ELSE IF first_data_idx > 1
                    THEN StripCells(df[first_data_idx - 1])
                    ELSE GenericHeaders(Len(data_rows[1]))
             IN  [headers |-> headers, rows |-> data_rows]
        ELSE [headers |-> StripCells(df[1]),
              rows |-> [k \in 1..(Len(df) - 1) |-> StripCells(df[k + 1])]]

\* _clean_table_structure whose fallback keeps the first row among the data
_clean_table_structure_KeepsFirstRow(df) ==
    IF df = <<>> \/ df[1] = <<>>
    THEN [headers |-> <<>>, rows |-> <<>>]
    ELSE
    LET data_indices == {i \in 1..Len(df) : IsDataRow(df[i])}
        data_rows == [k \in 1..Len(SelectSeq(df, IsDataRow)) |->
                        StripCells(SelectSeq(df, IsDataRow)[k])]
    IN  IF data_indices # {}
        THEN LET first_data_idx ==
                    CHOOSE i \in data_indices : \A j \in data_indices : i <= j
                 back == {b \in Max(1, first_data_idx - HeaderLookback)
                                  ..(first_data_idx - 1) :
                            LooksLikeHeader(df[b])}
                 headers ==
                    IF back # {}
                    THEN StripCells(df[CHOOSE b \in back :
                                          \A c \in back : c <= b])
                    ELSE IF first_data_idx > 1
                    THEN StripCells(df[first_data_idx - 1])
                    ELSE GenericHeaders(Len(data_rows[1]))
             IN  [headers |-> headers, rows |-> data_rows]
        ELSE [headers |-> StripCells(df[1]),
              rows |-> [k \in 1..Len(df) |-> StripCells(df[k])]]

\* _clean_table_structure(df): (headers, rows)
_clean_table_structure(df) ==
    IF df = <<>> \/ df[1] = <<>>
    THEN [headers |-> <<>>, rows |-> <<>>]
    ELSE
    LET data_indices == {i \in 1..Len(df) : IsDataRow(df[i])}
        data_rows == [k \in 1..Len(SelectSeq(df, IsDataRow)) |->
                        StripCells(SelectSeq(df, IsDataRow)[k])]
    IN  IF data_indices # {}
        THEN LET first_data_idx ==
                    CHOOSE i \in data_indices : \A j \in data_indices : i <= j
                 \* the rows looked at, the last one that qualifies wins
                 back == {b \in Max(1, first_data_idx - HeaderLookback)
                                  ..(first_data_idx - 1) :
                            LooksLikeHeader(df[b])}
                 headers ==
                    IF back # {}
                    THEN StripCells(df[CHOOSE b \in back :
                                          \A c \in back : c <= b])
                    ELSE IF first_data_idx > 1
                    THEN StripCells(df[first_data_idx - 1])
                    ELSE GenericHeaders(Len(data_rows[1]))
             IN  [headers |-> headers, rows |-> data_rows]
        \* no assembly rows: the first row is the header
        ELSE [headers |-> StripCells(df[1]),
              rows |-> [k \in 1..(Len(df) - 1) |-> StripCells(df[k + 1])]]

(***************************************************************************)
(* A caller of the Table Cleaner: a grid of three columns whose rows are   *)
(* rows of the kinds the documents hold.                                   *)
(***************************************************************************)
RowSamples ==
    { \* a label with padding and capitals, and a number
      << <<" ", "W", "a", "l", "l", "s", " ">>, <<"0", ".", "2", "1">>, <<>> >>,
      \* a number behind an inequality sign and a decimal comma
      << <<"r", "o", "o", "f", "s">>, <<LessEq, " ", "1", ",", "5">>, <<"x">> >>,
      \* a label without a number
      << <<"F", "l", "o", "o", "r", "s">>, <<"n", "/", "a">>, <<" ">> >>,
      \* numbers behind a word that is no label
      << <<"W", "a", "l", "l">>, <<"0", ".", "3">>, <<"0", ".", "4">> >>,
      \* a header: two cells of three filled, a keyword
      << <<>>, <<"Z", "o", "n", "e", " ", "4">>, <<"Z", "o", "n", "e", " ", "5">> >>,
      \* a keyword in a row with one cell of three filled
      << <<"Z", "o", "n", "e">>, <<>>, <<>> >>,
      \* a keyword that only the joining of the cells makes
      << <<"t", "o">>, <<"U">>, <<"V">> >>,
      \* a blank row
      << <<>>, <<" ">>, <<>> >> }

\* a header, blank rows and a data row: the header is the tenth row before
\* the data row, and the eleventh
LongGridHeader ==
    << <<>>, <<"Z", "o", "n", "e", " ", "4">>, <<"Z", "o", "n", "e", " ", "5">> >>

LongGridBlank == << <<>>, <<" ">>, <<>> >>

LongGridData ==
    << <<"r", "o", "o", "f", "s">>, <<LessEq, " ", "1", ",", "5">>, <<"x">> >>

LongGrids ==
    { <<LongGridHeader>> \o [k \in 1..(HeaderLookback - 1) |-> LongGridBlank]
          \o <<LongGridData>>,
      <<LongGridHeader>> \o [k \in 1..HeaderLookback |-> LongGridBlank]
          \o <<LongGridData>> }

RawGrids == SeqsUpTo(RowSamples, MaxGridRows) \cup LongGrids

ClnIdle ==
    [pc |-> "idle", df |-> <<>>, result |-> [headers |-> <<>>, rows |-> <<>>]]

\* headers, rows = self._clean_table_structure(df)
CleanTableStructure ==
    /\ cln.pc = "ready"
    /\ cln' = [cln EXCEPT !.pc = "cleaned",
                          !.result = _clean_table_structure(cln.df)]
    /\ UNCHANGED <<registry, lk, rep, val, norm, pipe, leg, meta, mx, fx, mrg, spl>>

(***************************************************************************)
(* marker_extractor.py: extract_tables_from_page and its cache.  A         *)
(* document is a path; the converter's output for it is Markdown, given    *)
(* here line by line with the page each line comes from (the Markdown      *)
(* itself carries no page).  The cache directory holds one file per path   *)
(* stem; a file is absent, partial (opened for writing, not yet or never   *)
(* written to its end) or complete.                                        *)
(***************************************************************************)
RECURSIVE SplitOn(_, _)
\* str.split(sep), sep one character
SplitOn(s, sep) ==
    IF \A i \in 1..Len(s) : s[i] # sep THEN <<s>>
    ELSE LET k == CHOOSE i \in 1..Len(s) :
                      s[i] = sep /\ \A j \in 1..(i - 1) : s[j] # sep
         IN  <<SubSeq(s, 1, k - 1)>> \o SplitOn(SubSeq(s, k + 1, Len(s)), sep)

RECURSIVE JoinLines(_)
\* "\n".join(lines)
JoinLines(lines) ==
    IF lines = <<>> THEN <<>>
    ELSE IF Len(lines) = 1 THEN lines[1]
    ELSE lines[1] \o <<"\n">> \o JoinLines(Tail(lines))

\* "|" in line
HasBar(line) == \E i \in 1..Len(line) : line[i] = "|"

RECURSIVE ParseLines(_, _, _)
\* the loop of _parse_markdown_tables; in_table holds exactly when
\* current_table is not empty
ParseLines(lines, current_table, tables) ==
    IF lines = <<>>
    THEN IF current_table # <<>>
         THEN Append(tables, JoinLines(current_table))
         ELSE tables
    ELSE IF HasBar(Head(lines))
    THEN ParseLines(Tail(lines), Append(current_table, Head(lines)), tables)
    ELSE IF current_table # <<>>
    THEN ParseLines(Tail(lines), <<>>,
                    Append(tables, JoinLines(current_table)))
    ELSE ParseLines(Tail(lines), <<>>, tables)

_parse_markdown_tables(markdown) ==
    ParseLines(SplitLines(markdown), <<>>, <<>>)

\* all(c in "|-: " for c in line)
IsSeparatorLine(line) ==
    \A i \in 1..Len(line) : line[i] \in {"|", "-", ":", " "}

\* [cell.strip() for cell in line.split("|")[1:-1]]
RowCells(line) ==
    LET parts == SplitOn(line, Pipe)
    IN  [i \in 1..(Len(parts) - 2) |-> Strip(parts[i + 1])]

RECURSIVE CellRows(_)
\* the loop of _markdown_to_cells
CellRows(lines) ==
    IF lines = <<>> THEN <<>>
    ELSE LET line == Head(lines)
         IN  IF ~StartsWith(Strip(line), <<"|">>) THEN CellRows(Tail(lines))
             ELSE IF IsSeparatorLine(line) THEN CellRows(Tail(lines))
             ELSE IF RowCells(line) # <<>>
             THEN <<RowCells(line)>> \o CellRows(Tail(lines))
             ELSE CellRows(Tail(lines))

_markdown_to_cells(table_md) == CellRows(SplitLines(table_md))

RECURSIVE TablesOfBlocks(_, _)
\* the loop of _extract_tables_from_result
TablesOfBlocks(table_blocks, target_page) ==
    IF table_blocks = <<>> THEN <<>>
    ELSE LET cells == _markdown_to_cells(Head(table_blocks))
         IN  (IF cells # <<>>
              THEN <<MarkerTable(cells, cells[1], target_page, "None")>>
              ELSE <<>>)
             \o TablesOfBlocks(Tail(table_blocks), target_page)

\* _extract_tables_from_result(result, target_page), result.markdown given
_extract_tables_from_result(markdown, target_page) ==
    TablesOfBlocks(_parse_markdown_tables(markdown), target_page)

NoDoc == [parent |-> "", stem |-> ""]

Docs ==
    { [parent |-> "pdfs", stem |-> "NECB-2011"],
      [parent |-> "archive", stem |-> "NECB-2011"],
      [parent |-> "pdfs", stem |-> "NECB-2020"] }

\* what the converter makes of a document: its lines and their pages
ConverterLines(pdf_path) ==
    IF pdf_path = [parent |-> "pdfs", stem |-> "NECB-2011"]
    THEN << [on |-> 0, line |-> <<"|", "A", "|", "B", "|">>],
            [on |-> 0, line |-> <<"|", "-", "|", "-", "|">>],
            [on |-> 0, line |-> <<"|", "1", "|", " ", "|">>],
            [on |-> 0, line |-> <<>>],
            [on |-> 1, line |-> <<"T">>],
            [on |-> 1, line |-> <<"|", "C", "|">>] >>
    ELSE IF pdf_path = [parent |-> "archive", stem |-> "NECB-2011"]
    THEN << [on |-> 0, line |-> <<"a", "|", "b">>],
            [on |-> 0, line |-> <<>>],
            [on |-> 1, line |-> <<" ", "|", "D", " ", "|">>] >>
    ELSE IF pdf_path = [parent |-> "pdfs", stem |-> "NECB-2020"]
    THEN << [on |-> 0, line |-> <<"x">>],
            [on |-> 1, line |-> <<"|", "E", "|", "F", "|">>],
            [on |-> 1, line |-> <<"|", "2", "|">>] >>
    ELSE <<>>

\* result.markdown of self._converter(str(pdf_path))
Markdown(pdf_path) ==
    LET ls == ConverterLines(pdf_path)
    IN  JoinLines([i \in 1..Len(ls) |-> ls[i].line])

\* the part of that Markdown that comes from page p
PageMarkdown(pdf_path, p) ==
    LET ls == ConverterLines(pdf_path)
        IsOn(l) == l.on = p
        on_p == SelectSeq(ls, IsOn)
    IN  JoinLines([i \in 1..Len(on_p) |-> on_p[i].line])

Pages == 0..(NumPages - 1)

Stems == {d.stem : d \in Docs}

\* cache_dir / f"{pdf_path.stem}.marker.json": one file per stem
_get_cache_path(pdf_path) == pdf_path.stem

AbsentFile == [st |-> "absent", of |-> NoDoc]

Extractors == {"e1", "e2"}

\* a MarkerTableExtractor after __init__, and its call
ExIdle ==
    [cache_dir |-> FALSE, models |-> FALSE, pc |-> "idle",
     pdf_path |-> NoDoc, page_num |-> 0,
     exists |-> FALSE, loaded |-> FALSE, converted |-> FALSE,
     raised |-> FALSE, result |-> NoDoc, tables |-> <<>>,
     passes |-> 0, completed |-> 0]

MxIdle ==
    [fs |-> [s \in Stems |-> AbsentFile], ex |-> [e \in Extractors |-> ExIdle]]

\* extract_tables_from_page up to the test of the cache file
BeginExtract_IgnoresCache(e) ==
    \E p \in Pages :
        LET x == mx.ex[e]
            cache_file == x.cache_dir
            there == cache_file
                     /\ mx.fs[_get_cache_path(x.pdf_path)].st # "absent"
        IN  /\ x.pc \in {"idle", "done"}
            /\ x.passes < MaxPasses
            /\ mx' = [mx EXCEPT !.ex[e] =
                   [x EXCEPT !.pc = "model",
                             !.page_num = p, !.exists = there,
                             !.loaded = FALSE, !.converted = FALSE,
                             !.raised = FALSE, !.result = NoDoc,
                             !.tables = <<>>]]
            /\ UNCHANGED <<registry, lk, rep, val, norm, pipe, leg, meta, cln, fx, mrg, spl>>

\* extract_tables_from_page(pdf_path, page_num) up to the test
\* "cache_file and cache_file.exists()"
BeginExtract(e) ==
    \E p \in Pages :
        LET x == mx.ex[e]
            cache_file == x.cache_dir
            there == cache_file
                     /\ mx.fs[_get_cache_path(x.pdf_path)].st # "absent"
        IN  /\ x.pc \in {"idle", "done"}
            /\ x.passes < MaxPasses
            /\ mx' = [mx EXCEPT !.ex[e] =
                   [x EXCEPT !.pc = IF there THEN "load" ELSE "model",
                             !.page_num = p, !.exists = there,
                             !.loaded = FALSE, !.converted = FALSE,
                             !.raised = FALSE, !.result = NoDoc,
                             !.tables = <<>>]]
            /\ UNCHANGED <<registry, lk, rep, val, norm, pipe, leg, meta, cln, fx, mrg, spl>>

\* result = self._load_from_cache(cache_file), then the tables of the
\* result; json.load raises on a file that is not written to its end, and
\* the handler of extract_tables_from_page returns []
LoadFromCache(e) ==
    LET x == mx.ex[e]
        file == mx.fs[_get_cache_path(x.pdf_path)]
    IN  /\ x.pc = "load"
        /\ mx' = [mx EXCEPT !.ex[e] =
               IF file.st = "complete"
               THEN [x EXCEPT !.pc = "done", !.result = file.of,
                              !.tables = _extract_tables_from_result(
                                             Markdown(file.of), x.page_num)]
               ELSE [x EXCEPT !.pc = "done", !.raised = TRUE,
                              !.tables = <<>>]]
        /\ UNCHANGED <<registry, lk, rep, val, norm, pipe, leg, meta, cln, fx, mrg, spl>>

\* RunModel that returns the tables without saving the result
RunModel_NeverSaves(e) ==
    LET x == mx.ex[e]
        ran == [x EXCEPT !.models = TRUE, !.loaded = ~x.models,
                         !.converted = TRUE, !.passes = x.passes + 1]
    IN  /\ x.pc = "model"
        /\ \E ok \in BOOLEAN :
               mx' = [mx EXCEPT !.ex[e] =
                   IF ~ok
                   THEN [ran EXCEPT !.pc = "done", !.raised = TRUE]
                   ELSE [ran EXCEPT !.pc = "done", !.result = x.pdf_path,
                                    !.completed = x.completed + 1,
                                    !.tables = _extract_tables_from_result(
                                                   Markdown(x.pdf_path),
                                                   x.page_num)]]
        /\ UNCHANGED <<registry, lk, rep, val, norm, pipe, leg, meta, cln, fx, mrg, spl>>

\* self._ensure_models_loaded(); result = self._converter(str(pdf_path)).
\* The converter returns or raises; without a cache file the tables of
\* the result are returned at once
RunModel(e) ==
    LET x == mx.ex[e]
        ran == [x EXCEPT !.models = TRUE, !.loaded = ~x.models,
                         !.converted = TRUE, !.passes = x.passes + 1]
    IN  /\ x.pc = "model"
        /\ \E ok \in BOOLEAN :
               mx' = [mx EXCEPT !.ex[e] =
                   IF ~ok
                   THEN [ran EXCEPT !.pc = "done", !.raised = TRUE]
                   ELSE IF x.cache_dir
                   THEN [ran EXCEPT !.pc = "save", !.result = x.pdf_path,
                                    !.completed = x.completed + 1]
                   ELSE [ran EXCEPT !.pc = "done", !.result = x.pdf_path,
                                    !.completed = x.completed + 1,
                                    !.tables = _extract_tables_from_result(
                                                   Markdown(x.pdf_path),
                                                   x.page_num)]]
        /\ UNCHANGED <<registry, lk, rep, val, norm, pipe, leg, meta, cln, fx, mrg, spl>>

\* _save_to_cache: open(cache_file, "w") creates the file or empties it
SaveOpen(e) ==
    LET x == mx.ex[e]
    IN  /\ x.pc = "save"
        /\ mx' = [mx EXCEPT
               !.fs[_get_cache_path(x.pdf_path)] =
                   [st |-> "partial", of |-> NoDoc],
               !.ex[e] = [x EXCEPT !.pc = "dump"]]
        /\ UNCHANGED <<registry, lk, rep, val, norm, pipe, leg, meta, cln, fx, mrg, spl>>

\* _save_to_cache: json.dump into the open file, then the tables of the
\* result.  The dump reaches its end or raises part-way (the handler of
\* extract_tables_from_page returns []).  A file that another extractor is
\* still writing stays partial until the last writer has finished.
SaveDump(e) ==
    LET x == mx.ex[e]
        name == _get_cache_path(x.pdf_path)
        shared == \E o \in Extractors \ {e} :
                      /\ mx.ex[o].pc = "dump"
                      /\ _get_cache_path(mx.ex[o].pdf_path) = name
    IN  /\ x.pc = "dump"
        /\ \E ok \in BOOLEAN :
               mx' = IF ~ok
                     THEN [mx EXCEPT !.ex[e] =
                              [x EXCEPT !.pc = "done", !.raised = TRUE]]
                     ELSE [mx EXCEPT
                              !.fs[name] =
                                  IF shared THEN mx.fs[name]
                                  ELSE [st |-> "complete", of |-> x.result],
                              !.ex[e] =
                                  [x EXCEPT !.pc = "done",
                                            !.tables =
                                                _extract_tables_from_result(
                                                    Markdown(x.result),
                                                    x.page_num)]]
        /\ UNCHANGED <<registry, lk, rep, val, norm, pipe, leg, meta, cln, fx, mrg, spl>>

(***************************************************************************)
(* pymupdf_extractor.py: the Fast Extractor's block parser,                *)
(* _parse_markdown_table, and its confidence score.                        *)
(***************************************************************************)
RECURSIVE StripBars(_)
\* str.strip("|")
StripBars(s) ==
    IF s # <<>> /\ Head(s) = Pipe THEN StripBars(Tail(s))
    ELSE IF s # <<>> /\ s[Len(s)] = Pipe
    THEN StripBars(SubSeq(s, 1, Len(s) - 1))
    ELSE s

_is_separator(line) ==
    LET stripped == Strip(line)
    IN  IF ~StartsWith(stripped, <<Pipe>>) THEN FALSE
        ELSE LET content == Strip(StripBars(stripped))
             IN  \A i \in 1..Len(content) : content[i] \in {"-", ":", " "}

\* _calculate_confidence with a column penalty of 0.9, per mille
_calculate_confidence_MildColumnPenalty(rows, expected_cols) ==
    IF rows = <<>> THEN 0
    ELSE
    LET consistent_cols ==
            \A i \in 1..Len(rows) : CountChar(rows[i], Pipe) - 1 = expected_cols
        empty_cells ==
            SumSeq([i \in 1..Len(rows) |-> CountEmptyCells(rows[i])])
        total_cells == Len(rows) * expected_cols
        empty_ratio == [num |-> empty_cells, den |-> Max(total_cells, 1)]
        c1 == IF ~consistent_cols THEN (1000 * 9) \div 10 ELSE 1000
        c2 == IF Above20Percent(empty_ratio) THEN (c1 * 6) \div 10 ELSE c1
        c3 == IF Len(rows) < 2 THEN (c2 * 5) \div 10 ELSE c2
    IN  Max(0, IF c3 <= 1000 THEN c3 ELSE 1000)

\* _calculate_confidence, per mille
_calculate_confidence(rows, expected_cols) ==
    IF rows = <<>> THEN 0
    ELSE
    LET consistent_cols ==
            \A i \in 1..Len(rows) : CountChar(rows[i], Pipe) - 1 = expected_cols
        empty_cells ==
            SumSeq([i \in 1..Len(rows) |-> CountEmptyCells(rows[i])])
        total_cells == Len(rows) * expected_cols
        empty_ratio == [num |-> empty_cells, den |-> Max(total_cells, 1)]
        c1 == IF ~consistent_cols THEN (1000 * 7) \div 10 ELSE 1000
        c2 == IF Above20Percent(empty_ratio) THEN (c1 * 6) \div 10 ELSE c1
        c3 == IF Len(rows) < 2 THEN (c2 * 5) \div 10 ELSE c2
    IN  Max(0, IF c3 <= 1000 THEN c3 ELSE 1000)

\* data_rows that keeps the separator rows
DataRows_KeepsSeparators(lines) ==
    SelectSeq(lines, LAMBDA line : StartsWith(Strip(line), <<Pipe>>))

\* the lines of a block that are rows and no separators
DataRows(lines) ==
    SelectSeq(lines, LAMBDA line :
        StartsWith(Strip(line), <<Pipe>>) /\ ~_is_separator(line))

NoBlockTable ==
    [markdown_text |-> <<>>, estimated_rows |-> 0, estimated_cols |-> 0,
     confidence |-> 0, page_number |-> 0]

\* _parse_markdown_table: is_none says that None is returned
_parse_markdown_table(lines, page_num) ==
    IF lines = <<>> THEN [is_none |-> TRUE, table |-> NoBlockTable]
    ELSE
    LET data_rows == DataRows(lines)
    IN  IF data_rows = <<>> THEN [is_none |-> TRUE, table |-> NoBlockTable]
        ELSE
        LET estimated_cols == CountChar(data_rows[1], Pipe) - 1
            estimated_rows == Len(data_rows) - 1
        IN  [is_none |-> FALSE,
             table |->
                [markdown_text |-> JoinLines(lines),
                 estimated_rows |-> Max(0, estimated_rows),
                 estimated_cols |-> Max(1, estimated_cols),
                 confidence |->
                     _calculate_confidence(data_rows, estimated_cols),
                 page_number |-> page_num]]

(***************************************************************************)
(* A caller of the block parser: a block of lines as _split_tables         *)
(* collects them, rows and lines that begin with "-".                      *)
(***************************************************************************)
BlockLines ==
    { \* rows of two cells: none, one, both empty
      <<"|", "a", "|", "b", "|">>,
      <<"|", "a", "|", " ", "|">>,
      <<"|", " ", "|", "|">>,
      \* rows of four cells: none empty, two in a row empty
      <<"|", "c", "|", "d", "|", "e", "|", "f", "|">>,
      <<"|", "a", "|", " ", "|", " ", "|", "b", "|">>,
      \* a row of one cell, with padding
      <<" ", "|", "a", "|">>,
      \* a separator row and a rule
      <<"|", "-", "|", ":", "-", "|">>,
      <<"-", "-">> }

Blocks == SeqsUpTo(BlockLines, MaxBlockLines) \ {<<>>}

FxIdle ==
    [pc |-> "idle", lines |-> <<>>, page_num |-> 0,
     result |-> [is_none |-> TRUE, table |-> NoBlockTable]]

\* table = self._parse_markdown_table(current_table_lines, page_num)
ParseMarkdownTable ==
    /\ fx.pc = "ready"
    /\ fx' = [fx EXCEPT !.pc = "parsed",
                        !.result = _parse_markdown_table(fx.lines, fx.page_num)]
    /\ UNCHANGED <<registry, lk, rep, val, norm, pipe, leg, meta, cln, mx, mrg, spl>>

(***************************************************************************)
(* marker_extractor.py: detect_merged_cells.  Rows and columns are         *)
(* counted from 0, as the code counts them.                                *)
(***************************************************************************)
\* the loop over prev_col: the nearest non-empty cell left of col_idx, -1
\* when there is none
PrevFilled(row, col_idx) ==
    LET filled == {p \in 0..(col_idx - 1) : Strip(row[p + 1]) # <<>>}
    IN  IF filled = {} THEN -1
        ELSE CHOOSE p \in filled : \A q \in filled : q <= p

RECURSIVE RowRegionsFrom(_, _, _)
\* the loop over col_idx, from col_idx on
RowRegionsFrom(row, row_idx, col_idx) ==
    IF col_idx >= Len(row) THEN <<>>
    ELSE (IF Strip(row[col_idx + 1]) = <<>> /\ col_idx > 0
             /\ PrevFilled(row, col_idx) >= 0
          THEN << <<row_idx, PrevFilled(row, col_idx), 1,
                    col_idx - PrevFilled(row, col_idx) + 1>> >>
          ELSE <<>>)
         \o RowRegionsFrom(row, row_idx, col_idx + 1)

RECURSIVE RegionsFrom_LeftNeighbour(_, _)
\* detect_merged_cells that attributes an empty cell to the cell on its
\* left, empty or not
RegionsFrom_LeftNeighbour(cells, row_idx) ==
    IF row_idx >= Len(cells) THEN <<>>
    ELSE LET row == cells[row_idx + 1]
             empties == {c \in 1..(Len(row) - 1) : Strip(row[c + 1]) = <<>>}
             Pick(S) == CHOOSE c \in S : \A d \in S : c <= d
             RECURSIVE InOrder(_)
             InOrder(S) ==
                 IF S = {} THEN <<>>
                 ELSE << <<row_idx, Pick(S) - 1, 1, 2>> >>
                      \o InOrder(S \ {Pick(S)})
         IN  InOrder(empties) \o RegionsFrom_LeftNeighbour(cells, row_idx + 1)

RECURSIVE RegionsFrom(_, _)
\* the loop over row_idx, from row_idx on
RegionsFrom(cells, row_idx) ==
    IF row_idx >= Len(cells) THEN <<>>
    ELSE RowRegionsFrom(cells[row_idx + 1], row_idx, 0)
         \o RegionsFrom(cells, row_idx + 1)

\* detect_merged_cells(table): the list of (row, col, row_span, col_span)
detect_merged_cells(table) == RegionsFrom(table.cells, 0)

(***************************************************************************)
(* A caller of detect_merged_cells: a MarkerTable of up to two rows, each  *)
(* of empty, blank and filled cells.                                       *)
(***************************************************************************)
MergeCellChoices == {<<>>, <<" ">>, <<"a">>}

MergeRows == SeqsUpTo(MergeCellChoices, MaxGridCols + 1)

MrgIdle ==
    [pc |-> "idle", given |-> MarkerTable(<<>>, <<>>, 0, "None"),
     table |-> MarkerTable(<<>>, <<>>, 0, "None"), regions |-> <<>>]

\* extractor.detect_merged_cells(table); the table is read, not written
DetectMergedCells ==
    /\ mrg.pc = "ready"
    /\ mrg' = [mrg EXCEPT !.pc = "detected",
                        !.regions = detect_merged_cells(mrg.table)]
    /\ UNCHANGED <<registry, lk, rep, val, norm, pipe, leg, meta, cln, mx, fx, spl>>

(***************************************************************************)
(* pymupdf_extractor.py: the Fast Extractor's block splitter,              *)
(* _split_tables, and a caller that validates what it returns.             *)
(***************************************************************************)
\* stripped.startswith(("-", "=", "*"))
IsRuleLine(stripped) == stripped # <<>> /\ Head(stripped) \in {"-", "=", "*"}

\* table = self._parse_markdown_table(current_table_lines, page_num);
\* if table: tables.append(table)
ParsedBlock(current_table_lines, page_num) ==
    IF current_table_lines = <<>> THEN <<>>
    ELSE LET table == _parse_markdown_table(current_table_lines, page_num)
         IN  IF table.is_none THEN <<>> ELSE <<table.table>>

RECURSIVE SplitFrom(_, _, _, _)
\* the loop over lines and the handling of the block at the end of the text
SplitFrom(lines, page_num, current_table_lines, in_table) ==
    IF lines = <<>> THEN ParsedBlock(current_table_lines, page_num)
    ELSE
    LET line == Head(lines)
        stripped == Strip(line)
    IN  IF StartsWith(stripped, <<Pipe>>)
        THEN SplitFrom(Tail(lines), page_num,
                       Append(current_table_lines, line), TRUE)
        ELSE IF in_table /\ stripped = <<>>
        THEN ParsedBlock(current_table_lines, page_num)
             \o SplitFrom(Tail(lines), page_num, <<>>, FALSE)
        ELSE IF in_table /\ IsRuleLine(stripped)
        THEN SplitFrom(Tail(lines), page_num,
                       Append(current_table_lines, line), in_table)
        ELSE IF in_table
        THEN ParsedBlock(current_table_lines, page_num)
             \o SplitFrom(Tail(lines), page_num, <<>>, FALSE)
        ELSE SplitFrom(Tail(lines), page_num, current_table_lines, in_table)

\* _split_tables(markdown_text, page_num): the list of MarkdownTable
_split_tables(markdown_text, page_num) ==
    SplitFrom(SplitLines(markdown_text), page_num, <<>>, FALSE)

PageLines ==
    { \* rows of two cells, none or one of them empty, and a padded one
      <<"|", "a", "|", "b", "|">>,
      <<"|", "a", "|", " ", "|">>,
      <<" ", "|", "d", "|", "e", "|">>,
      \* a row of one cell
      <<"|", "c", "|">>,
      \* a separator row
      <<"|", "-", "|">>,
      \* a blank line, a line that begins with "-", a line of text
      <<>>,
      <<"-", "n">>,
      <<"n">> }

\* the page texts: up to MaxPageLines lines joined by "\n"
PageLineLists == SeqsUpTo(PageLines, MaxPageLines)

SplIdle ==
    [pc |-> "idle", markdown_text |-> <<>>, page_num |-> 0,
     tables |-> <<>>, results |-> <<>>]

\* tables = self._split_tables(md_text, page_num)
SplitTables ==
    /\ spl.pc = "ready"
    /\ spl' = [spl EXCEPT !.pc = "split",
                          !.tables = _split_tables(spl.markdown_text,
                                                   spl.page_num)]
    /\ UNCHANGED <<registry, lk, rep, val, norm, pipe, leg, meta, cln, mx, fx, mrg>>

\* validate_extraction(table) on every table returned, with the defaults of
\* its signature
ValidateTables ==
    /\ spl.pc = "split"
    /\ spl' = [spl EXCEPT !.pc = "validated",
                          !.results =
                              [i \in 1..Len(spl.tables) |->
                                  validate_extraction(spl.tables[i],
                                      DefaultMinRows, DefaultMinCols,
                                      PyMuPDFMinConfidence)]]
    /\ UNCHANGED <<registry, lk, rep, val, norm, pipe, leg, meta, cln, mx, fx, mrg>>

(***************************************************************************)
(* Specifications.                                                         *)
(***************************************************************************)
InitRegistry ==
    /\ registry = SCHEMA_REGISTRY
    /\ lk \in {[LkIdle EXCEPT !.n = n] : n \in TableNumberInputs}
    /\ rep = RepIdle
    /\ val = ValIdle
    /\ norm = NormIdle
    /\ pipe = PipeIdle
    /\ leg = LegIdle
    /\ meta = MetaIdle
    /\ cln = ClnIdle
    /\ mx = MxIdle
    /\ fx = FxIdle
    /\ mrg = MrgIdle
    /\ spl = SplIdle

NextRegistry == LookupPlain \/ LookupTable \/ LookupAppendix

SpecRegistry == InitRegistry /\ [][NextRegistry]_vars

InitRepair ==
    /\ registry = SCHEMA_REGISTRY
    /\ lk = LkIdle
    /\ rep = RepIdle
    /\ val = ValIdle
    /\ norm = NormIdle
    /\ pipe = PipeIdle
    /\ leg = LegIdle
    /\ meta = MetaIdle
    /\ cln = ClnIdle
    /\ mx = MxIdle
    /\ fx = FxIdle
    /\ mrg = MrgIdle
    /\ spl = SplIdle

NextRepair == Repair \/ RepairNext

SpecRepair == InitRepair /\ [][NextRepair]_vars

InitValidator ==
    /\ registry = SCHEMA_REGISTRY
    /\ lk = LkIdle
    /\ rep = RepIdle
    /\ val \in ValInputs
    /\ norm = NormIdle
    /\ pipe = PipeIdle
    /\ leg = LegIdle
    /\ meta = MetaIdle
    /\ cln = ClnIdle
    /\ mx = MxIdle
    /\ fx = FxIdle
    /\ mrg = MrgIdle
    /\ spl = SplIdle

NextValidator == Validate

SpecValidator == InitValidator /\ [][NextValidator]_vars

InitLayout ==
    /\ registry = SCHEMA_REGISTRY
    /\ lk = LkIdle
    /\ rep = RepIdle
    /\ val = ValIdle
    /\ \E g \in Grids : \E t \in MarkerTables(g) :
          norm = [NormIdle EXCEPT !.pc = "ready", !.table = t]
    /\ pipe = PipeIdle
    /\ leg = LegIdle
    /\ meta = MetaIdle
    /\ cln = ClnIdle
    /\ mx = MxIdle
    /\ fx = FxIdle
    /\ mrg = MrgIdle
    /\ spl = SplIdle

NextLayout == Normalize \/ NormalizeAgain

SpecLayout == InitLayout /\ [][NextLayout]_vars

InitLegacy ==
    /\ registry = SCHEMA_REGISTRY
    /\ lk = LkIdle
    /\ rep = RepIdle
    /\ val = ValIdle
    /\ norm = NormIdle
    /\ pipe = PipeIdle
    /\ leg = LegInit
    /\ meta = MetaIdle
    /\ cln = ClnIdle
    /\ mx = MxIdle
    /\ fx = FxIdle
    /\ mrg = MrgIdle
    /\ spl = SplIdle

NextLegacy == ExtractTablesFromPage

SpecLegacy == InitLegacy /\ [][NextLegacy]_vars

Init ==
    /\ registry = SCHEMA_REGISTRY
    /\ lk = LkIdle
    /\ rep = RepIdle
    /\ val = ValIdle
    /\ norm = NormIdle
    /\ pipe = PipeInit
    /\ leg = LegIdle
    /\ meta = MetaIdle
    /\ cln = ClnIdle
    /\ mx = MxIdle
    /\ fx = FxIdle
    /\ mrg = MrgIdle
    /\ spl = SplIdle

Next == FastExtract \/ RepairFast \/ LayoutExtract \/ RepairLayout \/ NextPage

Spec == Init /\ [][Next]_vars

InitMetadata ==
    /\ registry = SCHEMA_REGISTRY
    /\ lk = LkIdle
    /\ rep = RepIdle
    /\ val = ValIdle
    /\ norm = NormIdle
    /\ pipe = PipeIdle
    /\ leg = LegIdle
    /\ \E q \in CaptionLists, p \in 1..NumPages, i \in 0..MaxPageTables :
          meta = [MetaIdle EXCEPT !.pc = "ready", !.captions = q,
                                  !.page_text = FlatCat(q),
                                  !.page_number = p, !.table_idx = i]
    /\ cln = ClnIdle
    /\ mx = MxIdle
    /\ fx = FxIdle
    /\ mrg = MrgIdle
    /\ spl = SplIdle

NextMetadata == ExtractTableMetadata

SpecMetadata == InitMetadata /\ [][NextMetadata]_vars

InitCleaner ==
    /\ registry = SCHEMA_REGISTRY
    /\ lk = LkIdle
    /\ rep = RepIdle
    /\ val = ValIdle
    /\ norm = NormIdle
    /\ pipe = PipeIdle
    /\ leg = LegIdle
    /\ meta = MetaIdle
    /\ \E df \in RawGrids : cln = [ClnIdle EXCEPT !.pc = "ready", !.df = df]
    /\ mx = MxIdle
    /\ fx = FxIdle
    /\ mrg = MrgIdle
    /\ spl = SplIdle

NextCleaner == CleanTableStructure

SpecCleaner == InitCleaner /\ [][NextCleaner]_vars

InitCache ==
    /\ registry = SCHEMA_REGISTRY
    /\ lk = LkIdle
    /\ rep = RepIdle
    /\ val = ValIdle
    /\ norm = NormIdle
    /\ pipe = PipeIdle
    /\ leg = LegIdle
    /\ meta = MetaIdle
    /\ cln = ClnIdle
    /\ \E cfg \in [Extractors -> BOOLEAN \X Docs] :
           mx = [MxIdle EXCEPT !.ex =
                    [e \in Extractors |->
                        [ExIdle EXCEPT !.cache_dir = cfg[e][1],
                                       !.pdf_path = cfg[e][2]]]]
    /\ fx = FxIdle
    /\ mrg = MrgIdle
    /\ spl = SplIdle

NextCache ==
    \E e \in Extractors :
        \/ BeginExtract(e)
        \/ LoadFromCache(e)
        \/ RunModel(e)
        \/ SaveOpen(e)
        \/ SaveDump(e)

SpecCache == InitCache /\ [][NextCache]_vars

InitFast ==
    /\ registry = SCHEMA_REGISTRY
    /\ lk = LkIdle
    /\ rep = RepIdle
    /\ val = ValIdle
    /\ norm = NormIdle
    /\ pipe = PipeIdle
    /\ leg = LegIdle
    /\ meta = MetaIdle
    /\ cln = ClnIdle
    /\ mx = MxIdle
    /\ \E b \in Blocks, p \in Pages :
           fx = [FxIdle EXCEPT !.pc = "ready", !.lines = b, !.page_num = p]
    /\ mrg = MrgIdle
    /\ spl = SplIdle

NextFast == ParseMarkdownTable

SpecFast == InitFast /\ [][NextFast]_vars

InitMerged ==
    /\ registry = SCHEMA_REGISTRY
    /\ lk = LkIdle
    /\ rep = RepIdle
    /\ val = ValIdle
    /\ norm = NormIdle
    /\ pipe = PipeIdle
    /\ leg = LegIdle
    /\ meta = MetaIdle
    /\ cln = ClnIdle
    /\ mx = MxIdle
    /\ fx = FxIdle
    /\ \E g \in SeqsUpTo(MergeRows, 2) :
           LET t == MarkerTable(g, IF g = <<>> THEN <<>> ELSE g[1],
                                LayoutPage, "None")
           IN  mrg = [MrgIdle EXCEPT !.pc = "ready", !.given = t, !.table = t]
    /\ spl = SplIdle

NextMerged == DetectMergedCells

SpecMerged == InitMerged /\ [][NextMerged]_vars

(***************************************************************************)
(* The block splitter on its own: every page text of up to MaxPageLines    *)
(* lines, split and then validated.                                        *)
(***************************************************************************)
InitSplit ==
    /\ \E q \in PageLineLists : \E p \in Pages :
          spl = [SplIdle EXCEPT !.pc = "ready",
                                !.markdown_text = JoinLines(q),
                                !.page_num = p]
    /\ registry = SCHEMA_REGISTRY
    /\ lk = LkIdle
    /\ rep = RepIdle
    /\ val = ValIdle
    /\ norm = NormIdle
    /\ pipe = PipeIdle
    /\ leg = LegIdle
    /\ meta = MetaIdle
    /\ cln = ClnIdle
    /\ mx = MxIdle
    /\ fx = FxIdle
    /\ mrg = MrgIdle

NextSplit == SplitTables \/ ValidateTables

SpecSplit == InitSplit /\ [][NextSplit]_vars

(***************************************************************************)
(* Claims.                                                                 *)
(***************************************************************************)

\* C1: every repair_and_normalize call returns normally with exactly one
\* of (validated record, no errors) or (no data, at least one error).
RepairReturnsDataXorErrors ==
    rep.pc = "returned" =>
        /\ ~rep.result.raised
        /\ (rep.result.data # NoneData) # (rep.result.errors # <<>>)

\* C1 witness: a call whose model response made validate_output raise a
\* TypeError (a JSON null) has returned.
RepairReturnedAfterNonObject ==
    /\ rep.pc = "returned"
    /\ ~rep.llm.raises
    /\ \E i \in 1..Len(rep.llm.output) :
          rep.llm.output[i].k = "json" /\ rep.llm.output[i].v.t = "null"
    /\ rep.result.errors = <<"LLM request failed">>

FastTablePasses(i) ==
    validate_extraction(pipe.fast[i], DefaultMinRows, DefaultMinCols,
                        PyMuPDFMinConfidence).passed

TableFailureCapturedAndIsolated ==
    \A p \in 1..Len(leg.found) : \A i \in 1..leg.found[p] :
        /\ <<p, i>> \in leg.failed_at => <<p, i>> \in leg.failures
        /\ <<p, i>> \notin leg.failed_at => <<p, i>> \in leg.visited

\* C5: the ValidationOutcome of validate_extraction has passed = true if
\* and only if its error list is empty, whatever its warnings are.
ValidatorPassedIffNoErrors ==
    val.pc = "validated" =>
        (val.result.passed <=> val.result.errors = <<>>)

\* C5 witness: a table was validated, drew a warning and passed.
ValidatorPassedWithWarning ==
    /\ val.pc = "validated"
    /\ val.result.warnings # <<>>
    /\ val.result.passed

\* the thresholds of the call are met by the table's figures
MeetsThresholds ==
    /\ val.table.confidence >= val.min_confidence
    /\ val.table.estimated_rows >= val.min_rows
    /\ val.table.estimated_cols >= val.min_cols

\* C6 as stated: every table whose confidence, rows and columns meet the
\* thresholds passes with an empty error list.
ValidatorAcceptsAboveThresholds ==
    (val.pc = "validated" /\ MeetsThresholds) =>
        (val.result.passed /\ val.result.errors = <<>>)

\* C6 amended: every table whose confidence, rows and columns meet the
\* thresholds and whose block text, trimmed, begins with the cell
\* delimiter passes with an empty error list.
ValidatorAcceptsWellFormedAboveThresholds ==
    (/\ val.pc = "validated"
     /\ MeetsThresholds
     /\ StartsWith(Strip(val.table.markdown_text), <<Pipe>>)) =>
        (val.result.passed /\ val.result.errors = <<>>)

\* C6 witness: a well-formed block that just meets every threshold was
\* validated and passed.
ValidatorAcceptedAtThresholds ==
    /\ val.pc = "validated"
    /\ val.table.confidence = val.min_confidence
    /\ val.table.estimated_rows = val.min_rows
    /\ val.table.estimated_cols = val.min_cols
    /\ val.min_rows > 0
    /\ StartsWith(Strip(val.table.markdown_text), <<Pipe>>)
    /\ val.result.passed

\* the error rules the validated table violates
ViolatedRules ==
    (IF val.table.estimated_cols < val.min_cols
     THEN {"Too few columns"} ELSE {})
    \cup (IF val.table.estimated_rows < val.min_rows
          THEN {"Too few rows"} ELSE {})
    \cup (IF val.table.confidence < val.min_confidence
          THEN {"Low confidence"} ELSE {})
    \cup (IF ~StartsWith(Strip(val.table.markdown_text), <<Pipe>>)
          THEN {"Malformed table"} ELSE {})

ValidatorRejectsEmptyInput ==
    (val.pc = "validated" /\ Strip(val.table.markdown_text) = <<>>) =>
        /\ ~val.result.raised
        /\ ~val.result.passed
        /\ val.result.errors # <<>>

\* C8 witness: a whitespace-only block with zero rows, no threshold
\* unmet, was validated and rejected.
ValidatorRejectedBlankBlock ==
    /\ val.pc = "validated"
    /\ val.table.markdown_text = <<" ", "\n">>
    /\ val.table.estimated_rows = 0
    /\ MeetsThresholds
    /\ ~val.result.passed

\* C9: every row of the grid normalize_structure returns is as long as the
\* header row it returns.
NormalizedGridRectangular ==
    norm.pc = "normalized" =>
        \A i \in 1..Len(norm.result.cells) :
            Len(norm.result.cells[i]) = Len(norm.result.headers)

\* C9 witness: a grid with a leading blank row and a data row longer than
\* its header was normalized; the header was padded to the data row.
NormalizedRaggedGrid ==
    /\ norm.pc = "normalized"
    /\ norm.table.cells = <<<<<<" ">>>>, <<<<"a">>>>, <<<<"a">>, <<"a">>>>>>
    /\ norm.result.cells = <<<<<<"a">>, <<>>>>, <<<<"a">>, <<"a">>>>>>

\* C10: the lookups of n, "Table " + n and "A-" + n agree with each other
\* and with every repetition, a registered number resolves to its schema,
\* an unregistered one to None, and the registry is never written.
LookupPrefixInsensitive ==
    /\ registry = SCHEMA_REGISTRY
    /\ \A sp1 \in Spellings, sp2 \in Spellings :
          \A i \in 1..Len(lk.res[sp1]), j \in 1..Len(lk.res[sp2]) :
              lk.res[sp1][i] = lk.res[sp2][j]
    /\ \A sp \in Spellings : \A i \in 1..Len(lk.res[sp]) :
          /\ (\A e \in SCHEMA_REGISTRY :
                 lk.n = e[1] => lk.res[sp][i] = e[2])
          /\ (lk.n = N_99_99_99 => lk.res[sp][i] = "None")

\* C10 witness: an appendix table number was looked up in all three
\* spellings, each more than once, and resolved.
LookupAllSpellingsDone ==
    /\ lk.n = N_3_2_1_4
    /\ \A sp \in Spellings : Len(lk.res[sp]) >= 2
    /\ lk.res["appendix"][2] = "FDWRTable"

\* the table number the extractor returned is the caption of number n:
\* "Table " or "Table A-", then n and the period the pattern demands
ReturnedCaptionOf(n) ==
    \E pre \in CaptionPrefixes :
        StartsWith(meta.result.table_number,
                   TablePrefix \o pre \o n \o <<".">>)

\* C11 as stated: when the extractor returns the caption of a registered
\* table number, the registry lookup of the returned table number gives
\* that number's registered schema.
MetadataNumberResolvesToSchema ==
    meta.pc = "done" =>
        \A e \in SCHEMA_REGISTRY :
            ReturnedCaptionOf(e[1]) =>
                get_schema_for_table(registry, meta.result.table_number) = e[2]

\* C12: a call with no schema argument for a table number the registry
\* does not hold returns no data and the one error naming the missing
\* schema, and the model service is not called during it.
RepairRejectsUnknownTableWithoutModel ==
    (/\ rep.pc = "returned"
     /\ rep.schema_arg = "None"
     /\ get_schema_for_table(registry, rep.table_number) = "None") =>
        /\ rep.result.data = NoneData
        /\ rep.result.errors = <<"No schema found for table">>
        /\ rep.result.llm_calls = 0
        /\ rep.result.validated_with = {}

\* C12 witness: a call for the unregistered number 99.99.99 returned its
\* rejection although the model service would have answered with a valid
\* record.
RepairRejectedUnknownTable ==
    /\ rep.pc = "returned"
    /\ rep.schema_arg = "None"
    /\ rep.table_number = N_99_99_99
    /\ rep.llm = [raises |-> FALSE, output |-> <<Json(JObject(GoodRecord))>>]
    /\ rep.result.errors = <<"No schema found for table">>
    /\ rep.result.llm_calls = 0

\* the rows of the cleaned grid that qualify as data rows, trimmed, in
\* grid order
QualifyingRows ==
    LET kept == SelectSeq(cln.df, IsDataRow)
    IN  [k \in 1..Len(kept) |-> StripCells(kept[k])]

\* C13 as stated: for every raw grid the data rows returned are exactly
\* the rows with a known label and a numeric cell.
CleanerReturnsExactlyQualifyingRows ==
    cln.pc = "cleaned" => cln.result.rows = QualifyingRows

\* C13 amended: for every raw grid with at least one qualifying row the
\* data rows returned are exactly the qualifying rows, trimmed, in grid
\* order.
CleanerReturnsQualifyingRowsWhenAny ==
    (cln.pc = "cleaned" /\ QualifyingRows # <<>>) =>
        cln.result.rows = QualifyingRows

\* C13 witness: a grid of a header, a data row and a labelled row without
\* a number was cleaned; only the data row was returned.
CleanerKeptOnlyDataRow ==
    /\ cln.pc = "cleaned"
    /\ Len(cln.df) = 3
    /\ ~IsDataRow(cln.df[1])
    /\ IsDataRow(cln.df[2])
    /\ Lower(Strip(cln.df[3][1])) \in assembly_names
    /\ ~IsDataRow(cln.df[3])
    /\ Len(cln.result.rows) = 1

\* no other extractor has begun a call on the cache file of e's document
AloneOnFile(e) ==
    \A o \in Extractors \ {e} :
        (/\ mx.ex[o].cache_dir
         /\ _get_cache_path(mx.ex[o].pdf_path)
                = _get_cache_path(mx.ex[e].pdf_path))
            => mx.ex[o].pc = "idle"

\* C14: with a cache directory, a call that missed the cache and whose
\* model run and save went through leaves the document's cache file
\* behind (complete and holding that run's output when no other extractor
\* uses the file); a call that found the cache file neither loads the
\* models nor runs the converter, and what it returns are the tables of the
\* output it read from the file; an extractor has no models after
\* construction and has them only after a call that missed the cache.
CacheWrittenOnMissReusedOnHit ==
    \A e \in Extractors :
        LET x == mx.ex[e]
            file == mx.fs[_get_cache_path(x.pdf_path)]
        IN  /\ (x.pc = "done" /\ x.cache_dir /\ ~x.exists /\ ~x.raised) =>
                   /\ file.st # "absent"
                   /\ AloneOnFile(e) =>
                          file = [st |-> "complete", of |-> x.pdf_path]
            /\ x.exists => (x.cache_dir /\ ~x.loaded /\ ~x.converted)
            /\ (x.exists /\ x.pc = "done" /\ ~x.raised) =>
                   /\ x.result # NoDoc
                   /\ _get_cache_path(x.result) = _get_cache_path(x.pdf_path)
                   /\ x.tables = _extract_tables_from_result(
                                     Markdown(x.result), x.page_num)
                   /\ AloneOnFile(e) => x.result = x.pdf_path
            /\ x.pc = "idle" => ~x.models
            /\ x.models => x.passes >= 1

\* an extractor that ran the converter once, on a miss, and has now
\* answered a later call from the cache file, with tables
CacheHitAfterOwnMiss ==
    \E e \in Extractors :
        /\ mx.ex[e].pc = "done"
        /\ mx.ex[e].exists
        /\ ~mx.ex[e].raised
        /\ mx.ex[e].passes = 1
        /\ mx.ex[e].models
        /\ mx.ex[e].tables # <<>>
        /\ AloneOnFile(e)

\* C15: a cache file that a call has found to exist, and is about to load,
\* is a complete serialized result, in every interleaving of the
\* extractors and after a save that raised part-way.
ReaderFindsOnlyCompleteEntries ==
    \A e \in Extractors :
        mx.ex[e].pc = "load" =>
            mx.fs[_get_cache_path(mx.ex[e].pdf_path)].st = "complete"

\* C16: a call that found a cache file it could not deserialize has run
\* the converter and returns the tables of that run, not the empty list of
\* the exception handler.
UnreadableEntryTreatedAsMiss ==
    \A e \in Extractors :
        LET x == mx.ex[e]
        IN  (x.pc = "done" /\ x.exists /\ x.result = NoDoc) =>
                /\ x.converted
                /\ ~x.raised
                /\ x.tables = _extract_tables_from_result(
                                  Markdown(x.pdf_path), x.page_num)

ReturnedTablesAreOnRequestedPage ==
    \A e \in Extractors :
        LET x == mx.ex[e]
        IN  (x.pc = "done" /\ ~x.raised /\ x.result = x.pdf_path) =>
                x.tables = _extract_tables_from_result(
                               PageMarkdown(x.pdf_path, x.page_num),
                               x.page_num)

\* the schema class a returned repair call validated against
RepTargetSchema ==
    IF rep.schema_arg = "None"
    THEN get_schema_for_table(registry, rep.table_number)
    ELSE rep.schema_arg

\* the returned call handed an object with an assemblies list to the
\* envelope schema
EnvelopeCandidate ==
    /\ rep.pc = "returned"
    /\ RepTargetSchema = "EnvelopeTable"
    /\ ~rep.llm.raises
    /\ JsonParses(_extract_json_from_markdown(rep.llm.output))
    /\ LET data == JsonLoads(_extract_json_from_markdown(rep.llm.output))
       IN  /\ data.t = "object"
           /\ ~(data.has_error /\ data.n = 1)
           /\ data.rec.list_key = "assemblies"

\* the assemblies list of that object
CandidateItems ==
    JsonLoads(_extract_json_from_markdown(rep.llm.output)).rec.items

CandidateTypes == {CandidateItems[i].type : i \in 1..Len(CandidateItems)}

RequiredOpaque == {"Walls", "Roofs", "Floors"}

RequiredFenestration == {"Windows", "Doors", "Skylights"}

CellsOfRow(row) ==
    LET parts == SplitOn(Strip(row), Pipe)
    IN  [i \in 1..(Len(parts) - 2) |-> parts[i + 1]]

\* the cells of a row that hold nothing but blanks
EmptyCellsOfRow(row) ==
    Cardinality({i \in 1..Len(CellsOfRow(row)) : Strip(CellsOfRow(row)[i]) = <<>>})

\* c times num tenths when the penalty applies
Penalized(c, applies, num) == IF applies THEN (c * num) \div 10 ELSE c

\* C20: the confidence of a parsed block is 1.0 times 0.7 when its rows
\* differ in their number of cells, times 0.6 when more than 20% of its
\* cells are empty, times 0.5 when it has fewer than 2 rows; it is one of
\* 1.0, 0.7, 0.6, 0.5, 0.42, 0.35, 0.30, 0.21.
ConfidenceIsProductOfPenalties ==
    (fx.pc = "parsed" /\ ~fx.result.is_none) =>
        LET rows == DataRows(fx.lines)
            same_cols ==
                \A i, j \in 1..Len(rows) :
                    Len(CellsOfRow(rows[i])) = Len(CellsOfRow(rows[j]))
            cells == SumSeq([i \in 1..Len(rows) |-> Len(CellsOfRow(rows[i]))])
            empty == SumSeq([i \in 1..Len(rows) |-> EmptyCellsOfRow(rows[i])])
            confidence == fx.result.table.confidence
        IN  /\ confidence =
                   Penalized(Penalized(Penalized(1000, ~same_cols, 7),
                                       5 * empty > cells, 6),
                             Len(rows) < 2, 5)
            /\ confidence \in {1000, 700, 600, 500, 420, 350, 300, 210}

\* C21: for an index below the number of captions on the page the
\* extractor returns the number of the caption at that index (the text
\* "Table " and what the pattern captures of that caption, which ends in
\* the period or the sub-index); for any other index it returns
\* "Table-<page>-<index>" and "Untitled Table".
MetadataReturnsIndexedMatchOrDefaults ==
    meta.pc = "done" =>
        IF meta.table_idx < Len(meta.captions)
        THEN LET caption == meta.captions[meta.table_idx + 1]
                 number == meta.result.table_number
             IN  /\ StartsWith(caption, number)
                 /\ Len(number) > Len(TablePrefix)
                 /\ number[Len(number)] \in {".", ")"}
                 /\ meta.result.title # <<>>
        ELSE /\ meta.result.table_number =
                    DefaultNumber(meta.page_number, meta.table_idx)
             /\ meta.result.title = DefaultTitle

\* the second of two different captions was returned for index 1
MetadataReturnedSecondCaption ==
    /\ meta.pc = "done"
    /\ meta.table_idx = 1
    /\ Len(meta.captions) = 2
    /\ StartsWith(meta.captions[2], meta.result.table_number)
    /\ ~StartsWith(meta.captions[1], meta.result.table_number)

\* the model's response in the returned call is an object whose only key
\* is "error"
LoneErrorResponse ==
    /\ rep.pc = "returned"
    /\ RepTargetSchema # "None"
    /\ ~rep.llm.raises
    /\ JsonParses(_extract_json_from_markdown(rep.llm.output))
    /\ LET data == JsonLoads(_extract_json_from_markdown(rep.llm.output))
       IN  data.t = "object" /\ data.has_error /\ data.n = 1

\* C22: a repair_and_normalize call queries the model service at most once
\* and constructs at most one schema class, the target schema; it ends
\* with a validated record or with a rejection, never both; a rejected
\* call has not queried twice; a response that is an object with the one
\* key "error" is rejected without any schema class being constructed.
RepairOneCallOneSchema ==
    rep.pc = "returned" =>
        /\ rep.result.llm_calls <= 1
        /\ rep.result.validated_with \subseteq {RepTargetSchema}
        /\ (rep.result.data # NoneData) # (rep.result.errors # <<>>)
        /\ rep.result.data # NoneData =>
               /\ rep.result.llm_calls = 1
               /\ rep.result.validated_with = {RepTargetSchema}
               /\ rep.result.data.schema = RepTargetSchema
        /\ LoneErrorResponse =>
               /\ rep.result.data = NoneData
               /\ rep.result.errors = <<"LLM rejected input">>
               /\ rep.result.llm_calls = 1
               /\ rep.result.validated_with = {}

\* a call whose response was the lone error object, in a code fence, has
\* returned its rejection after one query
RepairRejectedLoneErrorObject ==
    /\ LoneErrorResponse
    /\ Head(rep.llm.output) = Fence
    /\ rep.result.errors = <<"LLM rejected input">>
    /\ rep.result.llm_calls = 1

\* the index of the first qualifying data row of the cleaned grid, 0 when
\* no row qualifies
FirstDataIndex ==
    IF \E i \in 1..Len(cln.df) : IsDataRow(cln.df[i])
    THEN CHOOSE i \in 1..Len(cln.df) :
            IsDataRow(cln.df[i]) /\ \A j \in 1..(i - 1) : ~IsDataRow(cln.df[j])
    ELSE 0

\* row b is one of the ten rows before the first data row and looks like
\* a header
HeaderCandidate(b) ==
    /\ b >= 1
    /\ b < FirstDataIndex
    /\ FirstDataIndex - b <= HeaderLookback
    /\ LooksLikeHeader(cln.df[b])

\* C23: when the grid has a data row, the header returned is the trimmed
\* row of the header candidate nearest to the first data row; without a
\* candidate it is the trimmed row just before the first data row; when
\* the first data row is the grid's first row it is "Column 0", "Column 1",
\* and so on, one label per column.
CleanerHeaderByPriority ==
    (cln.pc = "cleaned" /\ FirstDataIndex > 0) =>
        LET f == FirstDataIndex
            headers == cln.result.headers
        IN  /\ \A b \in 1..(f - 1) :
                   (HeaderCandidate(b)
                    /\ \A c \in (b + 1)..(f - 1) : ~HeaderCandidate(c)) =>
                       headers = StripCells(cln.df[b])
            /\ ((\A b \in 1..(f - 1) : ~HeaderCandidate(b)) /\ f > 1) =>
                   headers = StripCells(cln.df[f - 1])
            /\ f = 1 =>
                   /\ Len(headers) = Len(cln.df[1])
                   /\ \A i \in 1..Len(headers) :
                          headers[i] = <<"C", "o", "l", "u", "m", "n", " ">>
                                           \o Decimal(i - 1)

\* a grid whose only header row stands eleven rows before the first data
\* row was cleaned: the blank row just before the data row is the header
CleanerHeaderBeyondLookback ==
    /\ cln.pc = "cleaned"
    /\ FirstDataIndex = HeaderLookback + 2
    /\ LooksLikeHeader(cln.df[1])
    /\ \A b \in 1..(FirstDataIndex - 1) : ~HeaderCandidate(b)
    /\ cln.result.headers = <<<<>>, <<>>, <<>>>>

\* C24: when no row of a grid qualifies as a data row, the header returned
\* is the grid's first row and the data rows are all the rows after it, in
\* order, every cell trimmed.
CleanerFallbackFirstRowIsHeader ==
    (cln.pc = "cleaned" /\ cln.df # <<>> /\ FirstDataIndex = 0) =>
        /\ cln.result.headers = StripCells(cln.df[1])
        /\ Len(cln.result.rows) = Len(cln.df) - 1
        /\ \A k \in 1..(Len(cln.df) - 1) :
               /\ Len(cln.result.rows[k]) = Len(cln.df[k + 1])
               /\ \A c \in 1..Len(cln.df[k + 1]) :
                      cln.result.rows[k][c] = Strip(cln.df[k + 1][c])

\* a grid of three rows, none a data row, one with a known label and no
\* number, was cleaned into a header and two data rows
CleanerFellBackOnUnknownVocabulary ==
    /\ cln.pc = "cleaned"
    /\ Len(cln.df) = 3
    /\ FirstDataIndex = 0
    /\ \E i \in 2..3 : Lower(Strip(cln.df[i][1])) \in assembly_names
    /\ cln.df[2] # StripCells(cln.df[2])
    /\ Len(cln.result.rows) = 2

\* the cell at row r, column c of the table, counted from 0, is empty
MergeCellEmpty(r, c) == Strip(mrg.table.cells[r + 1][c + 1]) = <<>>

\* C25: every region detect_merged_cells returns is (row, start column, 1,
\* column span) with a span of at least 2 that lies inside the row, a
\* non-empty cell at the start column and only empty cells in the rest of
\* the span; there is exactly one region for every empty cell that has a
\* non-empty cell to its left, none for any other cell; the table is what
\* it was before the call.
MergedRegionsFollowFilledCell ==
    mrg.pc = "detected" =>
        LET cells == mrg.table.cells
            regions == mrg.regions
            \* the empty cells with a non-empty cell somewhere to the left
            attributed ==
                {rc \in UNION {{<<r, c>> : c \in 1..(Len(cells[r + 1]) - 1)} :
                               r \in 0..(Len(cells) - 1)} :
                    /\ MergeCellEmpty(rc[1], rc[2])
                    /\ \E p \in 0..(rc[2] - 1) : ~MergeCellEmpty(rc[1], p)}
        IN  /\ \A i \in 1..Len(regions) :
                   LET row == regions[i][1]
                       col == regions[i][2]
                       span == regions[i][4]
                   IN  /\ row \in 0..(Len(cells) - 1)
                       /\ regions[i][3] = 1
                       /\ span >= 2
                       /\ col >= 0
                       /\ col + span <= Len(cells[row + 1])
                       /\ ~MergeCellEmpty(row, col)
                       /\ \A c \in (col + 1)..(col + span - 1) :
                              MergeCellEmpty(row, c)
                       /\ <<row, col + span - 1>> \in attributed
            /\ \A rc \in attributed :
                   \E i \in 1..Len(regions) :
                       /\ regions[i][1] = rc[1]
                       /\ regions[i][2] + regions[i][4] - 1 = rc[2]
            /\ Len(regions) = Cardinality(attributed)
            /\ mrg.table = mrg.given

\* a row with an empty cell before its first non-empty cell and two empty
\* cells after it: two regions, of spans 2 and 3, none for the leading cell
MergedTwoSpansFromOneCell ==
    /\ mrg.pc = "detected"
    /\ Len(mrg.table.cells) >= 2
    /\ Len(mrg.table.cells[1]) = 3
    /\ MergeCellEmpty(0, 0)
    /\ MergeCellEmpty(0, 1)
    /\ ~MergeCellEmpty(0, 2)
    /\ Len(mrg.table.cells[2]) = 3
    /\ mrg.regions = << <<1, 0, 1, 2>>, <<1, 0, 1, 3>> >>

\* the lines of the page text handed to the block splitter
SplitPageLines == SplitLines(spl.markdown_text)

\* a line whose first non-blank character is the column-separator marker
IsTabularLine(line) == StartsWith(Strip(line), <<Pipe>>)

RECURSIVE RunsOfTabularLines(_, _)
\* the maximal runs of contiguous tabular lines, in page order; current is the
\* run that is open
RunsOfTabularLines(lines, current) ==
    LET closed == IF current = <<>> THEN <<>> ELSE <<current>>
    IN  IF lines = <<>> THEN closed
        ELSE IF IsTabularLine(Head(lines))
        THEN RunsOfTabularLines(Tail(lines), Append(current, Head(lines)))
        ELSE closed \o RunsOfTabularLines(Tail(lines), <<>>)

\* a run with a row that is no separator row
HasDataRow(run) ==
    \E i \in 1..Len(run) : IsTabularLine(run[i]) /\ ~_is_separator(run[i])

\* C26: the blocks returned for a page text are its maximal runs of
\* contiguous tabular lines, in page order - every blank or non-tabular line
\* ends the open block, and no block holds lines of two runs (runs of
\* separator rows alone, for which no block is returned, left aside)
BlocksAreRunsOfTabularLines ==
    spl.pc \in {"split", "validated"} =>
        LET runs == SelectSeq(RunsOfTabularLines(SplitPageLines, <<>>),
                              HasDataRow)
        IN  /\ Len(spl.tables) = Len(runs)
            /\ \A i \in 1..Len(runs) :
                   spl.tables[i].markdown_text = JoinLines(runs[i])

\* C27: a call that was answered from the cache returns the tables of the
\* document it was made for: the entry it read holds the output of that
\* document and of no other.
CacheEntryIsOfRequestedDocument ==
    \A e \in Extractors :
        LET x == mx.ex[e]
        IN  (x.pc = "done" /\ x.exists /\ ~x.raised /\ x.result # NoDoc) =>
                /\ x.result = x.pdf_path
                /\ x.tables = _extract_tables_from_result(
                                  Markdown(x.pdf_path), x.page_num)

\* the rows of a block text that are no separator rows
NonSeparatorRows(markdown_text) ==
    SelectSeq(SplitLines(markdown_text),
              LAMBDA line : IsTabularLine(line) /\ ~_is_separator(line))

\* the first character of a text that is no white space, "" when it has none
FirstNonBlank(s) ==
    LET at == {i \in 1..Len(s) : s[i] \notin Whitespace}
    IN  IF at = {} THEN ""
        ELSE s[CHOOSE i \in at : \A j \in at : i <= j]

\* C28: every table the block splitter returns has a block text whose first
\* non-blank character is the cell delimiter, at least one non-separator
\* row, a column estimate of at least 1 and a row estimate equal to the
\* number of its non-separator rows minus one; the Validator raises the
\* malformed-block error on none of them.
SplitterTablesAreWellFormed ==
    /\ spl.pc \in {"split", "validated"} =>
           \A i \in 1..Len(spl.tables) :
               LET table == spl.tables[i]
                   rows == NonSeparatorRows(table.markdown_text)
               IN  /\ FirstNonBlank(table.markdown_text) = Pipe
                   /\ Len(rows) >= 1
                   /\ table.estimated_cols >= 1
                   /\ table.estimated_rows = Len(rows) - 1
                   /\ table.estimated_rows >= 0
    /\ spl.pc = "validated" =>
           /\ Len(spl.results) = Len(spl.tables)
           /\ \A i \in 1..Len(spl.results) :
                  /\ ~spl.results[i].raised
                  /\ \A k \in 1..Len(spl.results[i].errors) :
                         spl.results[i].errors[k] # "Malformed table"

\* a block that begins with white space and holds a separator row between
\* two rows was returned and validated: one data row after the header, no
\* malformed-block error
SplitterPaddedBlockValidated ==
    /\ spl.pc = "validated"
    /\ Len(spl.tables) = 1
    /\ Head(spl.tables[1].markdown_text) = " "
    /\ Len(SplitLines(spl.tables[1].markdown_text)) = 3
    /\ Len(NonSeparatorRows(spl.tables[1].markdown_text)) = 2
    /\ spl.tables[1].estimated_rows = 1
    /\ spl.tables[1].estimated_cols = 2
    /\ spl.results[1].passed

\* one of the three penalties applies to the rows of a block text: a row
\* whose bar count differs from the first row's, more than 20% of the
\* expected cells counted empty, fewer than two rows
PenaltyApplies(markdown_text) ==
    LET rows == NonSeparatorRows(markdown_text)
        expected_cols == CountChar(rows[1], Pipe) - 1
        empty_cells ==
            SumSeq([i \in 1..Len(rows) |-> CountEmptyCells(rows[i])])
    IN  \/ \E i \in 1..Len(rows) : CountChar(rows[i], Pipe) - 1 # expected_cols
        \/ 5 * empty_cells > Max(Len(rows) * expected_cols, 1)
        \/ Len(rows) < 2

\* C29: a table of the block splitter passes validation with the default
\* thresholds exactly when its confidence is 1.0 and its column estimate is
\* at least 2; the confidence is 1.0 exactly when no penalty applied, and a
\* table with a penalty has confidence at most 0.7 and fails.
DefaultValidationPassesIffUnpenalized ==
    spl.pc = "validated" =>
        \A i \in 1..Len(spl.tables) :
            LET table == spl.tables[i]
                result == spl.results[i]
            IN  /\ ~result.raised
                /\ result.passed <=>
                       (table.confidence = 1000 /\ table.estimated_cols >= 2)
                /\ table.confidence = 1000 <=>
                       ~PenaltyApplies(table.markdown_text)
                /\ PenaltyApplies(table.markdown_text) =>
                       (table.confidence <= 700 /\ ~result.passed)

\* a block of two rows and two columns whose second row is short: the
\* column penalty alone, confidence 0.7, rejected for low confidence and
\* nothing else
SinglePenaltyFailsDefaultValidation ==
    /\ spl.pc = "validated"
    /\ Len(spl.tables) = 1
    /\ spl.tables[1].estimated_cols = 2
    /\ spl.tables[1].estimated_rows = 1
    /\ spl.tables[1].confidence = 700
    /\ ~spl.results[1].passed
    /\ spl.results[1].errors = <<"Low confidence">>

\* C30: normalizing a normalized table changes nothing - the second result
\* has the cells, headers, page number and bounding boxes of the first -
\* and a normalized grid that is not empty has the header row as its first
\* row.
NormalizeIsIdempotent ==
    /\ norm.pc \in {"normalized", "renormalized"} =>
           /\ norm.result.cells # <<>> =>
                  norm.result.cells[1] = norm.result.headers
           /\ norm.result.page_number = norm.table.page_number
           /\ norm.result.bboxes = norm.table.bboxes
    /\ norm.pc = "renormalized" =>
           /\ norm.again.cells = norm.result.cells
           /\ norm.again.headers = norm.result.headers
           /\ norm.again.page_number = norm.result.page_number
           /\ norm.again.bboxes = norm.result.bboxes
           /\ norm.again.cells # <<>> =>
                  norm.again.cells[1] = norm.again.headers

\* a grid with a blank first row and a header shorter than its data row was
\* normalized, which dropped the blank row and padded the header, and then
\* normalized again
NormalizedTwiceAfterRealChange ==
    /\ norm.pc = "renormalized"
    /\ norm.table.cells = <<<<<<" ">>>>, <<<<"a">>>>, <<<<"a">>, <<"a">>>>>>
    /\ norm.result.cells = <<<<<<"a">>, <<>>>>, <<<<"a">>, <<"a">>>>>>
    /\ norm.result.headers = <<<<"a">>, <<>>>>
    /\ norm.again = norm.result

====
